---------------------------- MODULE Spec2Model ----------------------------
(***************************************************************************)
(* BOT GPT conversational backend: the context window manager              *)
(* (src/src/Services/llm_service.py), the model call with its retry loop,  *)
(* and the turn orchestrator (src/src/Services/services.py) driven by the  *)
(* HTTP handlers of src/src/api/router.py.                                 *)
(*                                                                         *)
(* Texts are represented by their length in characters: count_tokens, the  *)
(* only function of a text the window manager uses, depends on len(text)   *)
(* alone.  An absent text (Python None) is NoText.                         *)
(***************************************************************************)
EXTENDS Integers, Sequences, FiniteSets, TLC

VARIABLES
    context_limit,  \* llm_service.CONTEXT_LIMIT (module global, patched by the tests)
    client,         \* llm_service.client: "Groq", or "None" when Groq() failed at import
    conversations,  \* table conversations: conversation_id -> [mode, token_count]
    messages,       \* table messages: a set of rows
    workers,        \* the request handlers the deployment runs side by side
    provider,       \* the outcomes the provider shows in this run
    started,        \* number of HTTP requests accepted so far
    req,            \* per request handler: its position and local variables
    win,            \* inputs and results of the direct calls of manage_context_window
    documents,      \* table documents: document_id -> [processing_status]
    document_chunks,            \* table document_chunks: a set of rows
    conversation_document_link, \* table conversation_document_link: a set of rows
    pending_documents_store,    \* router.pending_documents_store[user_id]: a list of entries
    upload,         \* the upload handler: its position and local variables
    rank,           \* inputs and results of the direct runs of the retrieval ranking
    chunker,        \* a direct run of _chunk_text: its arguments and the locals of its loop
    admin,          \* the handlers that link documents and delete conversations
    counted         \* a direct call of count_tokens: its argument and what it returns

vars == <<context_limit, client, workers, provider, conversations, messages, started, req, win,
          documents, document_chunks, conversation_document_link, pending_documents_store,
          upload, rank, chunker, admin, counted>>

\* the tables and registry of the document side
DocTables == <<documents, document_chunks, conversation_document_link, pending_documents_store>>

-----------------------------------------------------------------------------
(* Configuration: llm_service.py lines 16-25 *)

LLM_MODEL == "llama-3.1-8b-instant"
MAX_MODEL_TOKENS == 32768
\* SAFETY_THRESHOLD = 0.8, as the fraction SafetyNum / SafetyDen
SafetyNum == 8
SafetyDen == 10
\* int(MAX_MODEL_TOKENS * SAFETY_THRESHOLD)
CONTEXT_LIMIT == (MAX_MODEL_TOKENS * SafetyNum) \div SafetyDen
\* len(SYSTEM_PROMPT)
SYSTEM_PROMPT == 192
\* len("RAG CONTEXT:\n---\n") and len("\n---\n\n") of format_messages_for_llm
RagHeaderLen == 17
RagFooterLen == 6
MAX_RETRIES == 3

\* test_service.py patches MAX_MODEL_TOKENS to 3850 and CONTEXT_LIMIT to int(3850 * 0.8)
TestMaxModelTokens == 3850
TestContextLimit == (TestMaxModelTokens * SafetyNum) \div SafetyDen

NoText == -1
None == "None"

USER == "USER"
ASSISTANT == "ASSISTANT"
SYSTEM == "SYSTEM"
OPEN_CHAT == "OPEN_CHAT"
RAG_CHAT == "RAG_CHAT"

-----------------------------------------------------------------------------
(* Bounds of the model *)

MaxHist == 3        \* longest arbitrary history handed directly to manage_context_window
MaxUniform == 10    \* longest history of equal turns handed directly to it
MaxPrepend == 2     \* turns prepended to a history
MaxRequests == 2    \* HTTP requests accepted in one run
MaxUploads == 1     \* documents uploaded in one run
MaxCandidates == 6  \* chunks handed directly to the retrieval ranking
MaxTextLen == 1440  \* longest text handed directly to _chunk_text
MaxIterations == 5  \* iterations of the loop of _chunk_text that are followed
MaxLinks == 2       \* requests to the link endpoint
MaxDeletes == 2     \* requests to the delete endpoint
MaxCounted == 130   \* longest text handed directly to count_tokens

Procs == {"h1", "h2"}

-----------------------------------------------------------------------------
(* Pure functions of llm_service.py *)

\* Python truthiness of an Optional[str]: None and "" are falsy
Truthy(text) == text > 0

count_tokens_rounded_up(text) ==
    IF ~Truthy(text) THEN 0 ELSE (text + 3) \div 4

count_tokens(text) ==
    IF ~Truthy(text) THEN 0 ELSE text \div 4

\* the system message as format_messages_for_llm builds it
full_system_prompt(rag_context) ==
    IF Truthy(rag_context)
    THEN RagHeaderLen + rag_context + RagFooterLen + SYSTEM_PROMPT
    ELSE SYSTEM_PROMPT

format_messages_for_llm(conversation_history, rag_context) ==
    <<[role |-> "system", content |-> full_system_prompt(rag_context)]>>
    \o [i \in 1..Len(conversation_history) |->
          [role |-> IF conversation_history[i].role = USER THEN "user"
                    ELSE IF conversation_history[i].role = ASSISTANT THEN "assistant"
                    ELSE "system",
           content |-> conversation_history[i].content]]

RECURSIVE window_walk_skip(_, _, _, _)
window_walk_skip(conversation_history, i, current_tokens, processed_history) ==
    IF i = 0 THEN processed_history
    ELSE LET message == conversation_history[i]
             message_tokens == count_tokens(message.content)
         IN  IF current_tokens + message_tokens <= context_limit
             THEN window_walk_skip(conversation_history, i - 1,
                                   current_tokens + message_tokens,
                                   <<message>> \o processed_history)
             ELSE window_walk_skip(conversation_history, i - 1,
                                   current_tokens, processed_history)

RECURSIVE window_walk_strict(_, _, _, _)
window_walk_strict(conversation_history, i, current_tokens, processed_history) ==
    IF i = 0 THEN processed_history
    ELSE LET message == conversation_history[i]
             message_tokens == count_tokens(message.content)
         IN  IF current_tokens + message_tokens < context_limit
             THEN window_walk_strict(conversation_history, i - 1,
                                     current_tokens + message_tokens,
                                     <<message>> \o processed_history)
             ELSE processed_history

RECURSIVE window_walk_append(_, _, _, _)
window_walk_append(conversation_history, i, current_tokens, processed_history) ==
    IF i = 0 THEN processed_history
    ELSE LET message == conversation_history[i]
             message_tokens == count_tokens(message.content)
         IN  IF current_tokens + message_tokens <= context_limit
             THEN window_walk_append(conversation_history, i - 1,
                                     current_tokens + message_tokens,
                                     Append(processed_history, message))
             ELSE processed_history

RECURSIVE window_walk_forward(_, _, _, _)
window_walk_forward(conversation_history, i, current_tokens, processed_history) ==
    IF i = 0 THEN processed_history
    ELSE LET message == conversation_history[Len(conversation_history) - i + 1]
             message_tokens == count_tokens(message.content)
         IN  IF current_tokens + message_tokens <= context_limit
             THEN window_walk_forward(conversation_history, i - 1,
                                      current_tokens + message_tokens,
                                      <<message>> \o processed_history)
             ELSE processed_history

RECURSIVE window_walk_keep_newest(_, _, _, _)
window_walk_keep_newest(conversation_history, i, current_tokens, processed_history) ==
    IF i = 0 THEN processed_history
    ELSE LET message == conversation_history[i]
             message_tokens == count_tokens(message.content)
         IN  IF \/ current_tokens + message_tokens <= context_limit
                \/ i = Len(conversation_history)
             THEN window_walk_keep_newest(conversation_history, i - 1,
                                          current_tokens + message_tokens,
                                          <<message>> \o processed_history)
             ELSE processed_history

\* the loop of manage_context_window: `for message in reversed(conversation_history)`,
\* i is the position of the message looked at (0: the iteration is over)
RECURSIVE window_walk(_, _, _, _)
window_walk(conversation_history, i, current_tokens, processed_history) ==
    IF i = 0 THEN processed_history
    ELSE LET message == conversation_history[i]
             message_tokens == count_tokens(message.content)
         IN  IF current_tokens + message_tokens <= context_limit
             THEN window_walk(conversation_history, i - 1,
                              current_tokens + message_tokens,
                              <<message>> \o processed_history)
             ELSE processed_history

base_tokens(rag_context) ==
    count_tokens(SYSTEM_PROMPT)
    + (IF Truthy(rag_context) THEN count_tokens(rag_context) ELSE 0)

manage_context_window(conversation_history, rag_context) ==
    window_walk(conversation_history, Len(conversation_history),
                base_tokens(rag_context), <<>>)

-----------------------------------------------------------------------------
(* Pure functions of document_processor.py and rag_service.py *)

PENDING == "PENDING"
CHUNKING == "CHUNKING"
READY == "READY"
FAILED == "FAILED"

\* the defaults of _chunk_text
CHUNK_SIZE == 512
CHUNK_OVERLAP == 50

\* The text of a document is a sequence of runs, each n characters that are all
\* whitespace or all not (ink); a piece of it (a chunk, the merged context) is
\* represented by its length and the number of its characters that are not whitespace.
Run(ink, n) == [ink |-> ink, n |-> n]

RECURSIVE TextLen(_)
TextLen(text) ==
    IF text = <<>> THEN 0 ELSE Head(text).n + TextLen(Tail(text))

\* the number of characters of text[start:stop] that are not whitespace,
\* 0 <= start <= stop <= len(text)
RECURSIVE InkBetween(_, _, _)
InkBetween(text, start, stop) ==
    IF text = <<>> THEN 0
    ELSE LET run == Head(text)
             lo == IF start > 0 THEN start ELSE 0
             hi == IF stop < run.n THEN stop ELSE run.n
         IN  (IF run.ink /\ hi > lo THEN hi - lo ELSE 0)
             + InkBetween(Tail(text), start - run.n, stop - run.n)

\* where Python's slicing puts an index: a negative one counts from the end, and both
\* kinds are clipped to the text
SliceIndex(text_len, index) ==
    IF index < 0
    THEN (IF text_len + index > 0 THEN text_len + index ELSE 0)
    ELSE (IF index < text_len THEN index ELSE text_len)

\* text[i:end]
Slice(text, i, end) ==
    LET start == SliceIndex(TextLen(text), i)
        stop == SliceIndex(TextLen(text), end)
    IN  IF stop > start
        THEN [len |-> stop - start, ink |-> InkBetween(text, start, stop)]
        ELSE [len |-> 0, ink |-> 0]

\* c.strip() is not empty
Stripped(content) == content.ink > 0

chunk_iteration_unclipped(text, chunk_size, chunk_overlap, i, chunks) ==
    LET end == i + chunk_size
    IN  [chunks |-> Append(chunks, [offset |-> i,
                                    content |-> [len |-> chunk_size,
                                                 ink |-> Slice(text, i, end).ink]]),
         i |-> i + (chunk_size - chunk_overlap),
         break |-> end >= TextLen(text)]

\* one iteration of the loop of _chunk_text: the chunk text[i:end] is appended (with the
\* offset it was cut at), i advances, and the loop is left when end reaches the text's end
chunk_iteration(text, chunk_size, chunk_overlap, i, chunks) ==
    LET end == i + chunk_size
    IN  [chunks |-> Append(chunks, [offset |-> i, content |-> Slice(text, i, end)]),
         i |-> i + (chunk_size - chunk_overlap),
         break |-> end >= TextLen(text)]

\* `while i < len(text)` for a configuration that advances
RECURSIVE chunk_walk(_, _, _, _, _)
chunk_walk(text, chunk_size, chunk_overlap, i, chunks) ==
    IF ~(i < TextLen(text)) THEN chunks
    ELSE LET iteration == chunk_iteration(text, chunk_size, chunk_overlap, i, chunks)
         IN  IF iteration.break THEN iteration.chunks
             ELSE chunk_walk(text, chunk_size, chunk_overlap, iteration.i, iteration.chunks)

\* _chunk_text(text), as _generate_and_save_chunks calls it
_chunk_text(text) ==
    IF TextLen(text) = 0 THEN <<>>
    ELSE chunk_walk(text, CHUNK_SIZE, CHUNK_OVERLAP, 0, <<>>)

\* a stored embedding is the text str(list of floats); ast.literal_eval and torch.tensor
\* accept it, or raise ValueError, SyntaxError or TypeError on a malformed one
ParsesAsVector(embedding) == embedding = "vector"

\* the scoring loop of retrieve_context_for_query: chunks in scan order, scores[i] the
\* cosine similarity of chunk i to the query; a chunk whose embedding does not parse is
\* skipped.  An entry is the tuple (score, chunk.content), with the chunk it came from
score_chunks_abort(chunks, scores) ==
    IF \E i \in 1..Len(chunks) : ~ParsesAsVector(chunks[i].embedding) THEN <<>>
    ELSE [i \in 1..Len(chunks) |->
             [score |-> scores[i], content |-> chunks[i].content,
              chunk_id |-> chunks[i].chunk_id]]

RECURSIVE score_chunks(_, _)
score_chunks(chunks, scores) ==
    IF chunks = <<>> THEN <<>>
    ELSE LET chunk == Head(chunks)
             rest == score_chunks(Tail(chunks), Tail(scores))
         IN  IF ~ParsesAsVector(chunk.embedding) THEN rest
             ELSE <<[score |-> Head(scores), content |-> chunk.content,
                     chunk_id |-> chunk.chunk_id]>> \o rest

RECURSIVE insert_by_score_first(_, _)
insert_by_score_first(sorted, entry) ==
    IF sorted = <<>> THEN <<entry>>
    ELSE IF Head(sorted).score > entry.score
         THEN <<Head(sorted)>> \o insert_by_score_first(Tail(sorted), entry)
         ELSE <<entry>> \o sorted

\* scored.sort(key=lambda x: x[0], reverse=True) is a stable sort: an entry goes behind
\* every entry of greater or equal score that was scanned before it
RECURSIVE insert_by_score(_, _)
insert_by_score(sorted, entry) ==
    IF sorted = <<>> THEN <<entry>>
    ELSE IF Head(sorted).score >= entry.score
         THEN <<Head(sorted)>> \o insert_by_score(Tail(sorted), entry)
         ELSE <<entry>> \o sorted

RECURSIVE sort_by_score(_)
sort_by_score(scored) ==
    IF scored = <<>> THEN <<>>
    ELSE insert_by_score(sort_by_score(SubSeq(scored, 1, Len(scored) - 1)),
                         scored[Len(scored)])

\* the characters of the entries' contents, and those of them that are not whitespace
RECURSIVE SumLen(_)
SumLen(entries) ==
    IF entries = <<>> THEN 0 ELSE Head(entries).content.len + SumLen(Tail(entries))

RECURSIVE SumInk(_)
SumInk(entries) ==
    IF entries = <<>> THEN 0 ELSE Head(entries).content.ink + SumInk(Tail(entries))

\* scored[:5]
TopK == 5
top_chunks(scored) ==
    LET sorted == sort_by_score(scored)
    IN  SubSeq(sorted, 1, IF Len(sorted) < TopK THEN Len(sorted) ELSE TopK)

\* len("\n\n"), the separator of the merged context
JoinLen == 2
joined_single_newline(top) ==
    [parts |-> [k \in 1..Len(top) |-> top[k].content],
     len |-> IF top = <<>> THEN 0 ELSE SumLen(top) + (Len(top) - 1),
     ink |-> SumInk(top)]

\* "\n\n".join(top_chunks): the chunks' texts in the order of top_chunks, the
\* separator between each two, none of whose characters is counted as ink
joined(top) ==
    [parts |-> [k \in 1..Len(top) |-> top[k].content],
     len |-> IF top = <<>> THEN 0 ELSE SumLen(top) + JoinLen * (Len(top) - 1),
     ink |-> SumInk(top)]

\* context if context.strip() else None: the merged text, here its length
merged_context(top) ==
    LET context == joined(top)
    IN  IF Stripped(context) THEN context.len ELSE NoText

-----------------------------------------------------------------------------
(* Rows of the message table (Db/models.py, class Message) *)

Message(message_id, conversation_id, sequence_number, role, content, llm_model) ==
    [message_id |-> message_id, conversation_id |-> conversation_id,
     sequence_number |-> sequence_number, role |-> role,
     content |-> content, llm_model |-> llm_model]

\* str(uuid.uuid4()): a fresh identifier, here the number of the request that draws
\* it and the object it is drawn for
Uuid(request, what) == <<request, what>>
\* a conversation_id no conversation has (requests are numbered from 1)
NoSuchConversation == Uuid(0, "conversation")
NoMessage == Message(Uuid(0, "message"), NoSuchConversation, 0, None, NoText, None)

-----------------------------------------------------------------------------
(* Direct calls of manage_context_window, as test_service.py makes them:   *)
(* a history ordered by sequence number 1..n, an optional grounding text,  *)
(* and CONTEXT_LIMIT either as configured or as the test patches it.       *)

\* contents of the turns, as lengths: empty, under one token, 32, 100, 1000 and
\* 13000 tokens, and one token more than the configured limit
WindowContents == {0, 3, 128, 400, 4000, 52000, 4 * CONTEXT_LIMIT + 4}
WindowRagContexts == {NoText, 0, 128}

WindowHistories ==
    UNION {[1..n -> WindowContents] : n \in 0..MaxHist}
    \cup {[i \in 1..n |-> c] : n \in (MaxHist + 1)..MaxUniform, c \in {400, 4000}}

\* the history the storage returns for turns with these contents, oldest first
MkHistory(contents) ==
    [i \in 1..Len(contents) |->
        Message(Uuid(i, "message"), NoSuchConversation, i, IF i % 2 = 1 THEN USER ELSE ASSISTANT, contents[i],
                IF i % 2 = 1 THEN None ELSE LLM_MODEL)]

WinIdle ==
    [stage |-> "none", contents |-> <<>>, pre |-> <<>>, rag_context |-> NoText,
     result |-> <<>>, first_result |-> <<>>, again |-> <<>>, messages_payload |-> <<>>]

WinHistory == MkHistory(win.pre \o win.contents)

\* manage_context_window(history, rag_context), and the payload call_llm_api formats
\* from its result
WindowSelect ==
    /\ win.stage = "input"
    /\ LET r == manage_context_window(WinHistory, win.rag_context)
       IN  win' = [win EXCEPT !.stage = "selected", !.result = r, !.first_result = r,
                              !.messages_payload =
                                  format_messages_for_llm(r, win.rag_context)]
    /\ UNCHANGED <<context_limit, client, workers, provider, conversations, messages, started, req,
                 DocTables, upload, rank, chunker, admin, counted>>

\* manage_context_window applied to its own result, same grounding text
WindowReselect ==
    /\ win.stage = "selected"
    /\ win' = [win EXCEPT !.stage = "reselected",
                          !.again = manage_context_window(win.result, win.rag_context)]
    /\ UNCHANGED <<context_limit, client, workers, provider, conversations, messages, started, req,
                 DocTables, upload, rank, chunker, admin, counted>>

\* a turn that cannot fit the budget is put before the oldest turn of the history,
\* and manage_context_window is called on the longer history
WindowPrepend ==
    /\ win.stage = "selected"
    /\ Len(win.pre) < MaxPrepend
    /\ \E c \in WindowContents :
          /\ count_tokens(c) > context_limit
          /\ LET pre == <<c>> \o win.pre
                 h == MkHistory(pre \o win.contents)
                 r == manage_context_window(h, win.rag_context)
             IN  win' = [win EXCEPT !.pre = pre, !.result = r,
                                    !.messages_payload =
                                        format_messages_for_llm(r, win.rag_context)]
    /\ UNCHANGED <<context_limit, client, workers, provider, conversations, messages, started, req,
                 DocTables, upload, rank, chunker, admin, counted>>

-----------------------------------------------------------------------------
(* Storage: services.py and Db/models.py *)

NoConversation == [mode |-> None, token_count |-> 0]

ConversationIds == DOMAIN conversations

\* db.query(Conversation).filter(conversation_id == ...).first()
get_conversation_detail(conversation_id) ==
    IF conversation_id \in ConversationIds
    THEN conversations[conversation_id] ELSE NoConversation

MessagesOf(conversation_id) ==
    {m \in messages : m.conversation_id = conversation_id}

_get_next_sequence_number_last(conversation_id) ==
    LET rows == MessagesOf(conversation_id)
    IN  IF rows = {} THEN 1
        ELSE CHOOSE n \in {m.sequence_number : m \in rows} :
                 \A m \in rows : m.sequence_number <= n

_get_next_sequence_number(conversation_id) ==
    LET rows == MessagesOf(conversation_id)
    IN  IF rows = {} THEN 1
        ELSE (CHOOSE n \in {m.sequence_number : m \in rows} :
                 \A m \in rows : m.sequence_number <= n) + 1

\* conversation.messages: the rows of the conversation ordered by sequence_number;
\* the order among rows of equal sequence_number is the storage's choice
RECURSIVE OrderedBySequence(_)
OrderedBySequence(rows) ==
    IF rows = {} THEN {<<>>}
    ELSE LET first == {m \in rows : \A o \in rows : m.sequence_number <= o.sequence_number}
         IN  UNION {{<<m>> \o rest : rest \in OrderedBySequence(rows \ {m})} : m \in first}

DocumentIds == DOMAIN documents

DocumentChunk(chunk_id, document_id, content, embedding, chunk_index) ==
    [chunk_id |-> chunk_id, document_id |-> document_id, content |-> content,
     embedding |-> embedding, chunk_index |-> chunk_index]

ConvDocumentLink(conversation_id, document_id) ==
    [conversation_id |-> conversation_id, document_id |-> document_id]

\* the document is stored and its processing_status is READY
IsReady(document_id) ==
    /\ document_id \in DocumentIds
    /\ documents[document_id].processing_status = READY

\* link_documents_to_conversation: a link row for every document that exists and is
\* READY, the others skipped
link_documents_to_conversation(conversation_id, document_ids) ==
    {ConvDocumentLink(conversation_id, doc_id) : doc_id \in {d \in document_ids : IsReady(d)}}

\* the rows a query without ORDER BY returns, in any order
RECURSIVE ScanOrders(_)
ScanOrders(rows) ==
    IF rows = {} THEN {<<>>}
    ELSE UNION {{<<row>> \o rest : rest \in ScanOrders(rows \ {row})} : row \in rows}

-----------------------------------------------------------------------------
(* The provider: what client.chat.completions.create can do on one call *)

NoUsage == -1
\* kind "choices": a completion with content and usage (usage NoUsage: response.usage
\* is absent); "no_choices": a completion whose choice list is empty; the others:
\* the exception the call raises
ProviderOutcomes ==
    {[kind |-> "choices", content |-> 80, usage |-> 50],
     [kind |-> "choices", content |-> 24, usage |-> NoUsage],
     [kind |-> "no_choices", content |-> NoText, usage |-> NoUsage],
     [kind |-> "RateLimitError", content |-> NoText, usage |-> NoUsage],
     [kind |-> "AuthenticationError", content |-> NoText, usage |-> NoUsage],
     [kind |-> "Exception", content |-> NoText, usage |-> NoUsage]}

\* `except APIError`: the Groq errors, "e.g., Rate Limits, Invalid Key"
IsAPIError(outcome) == outcome.kind \in {"RateLimitError", "AuthenticationError"}

NoResult == [content |-> NoText, model |-> None, token_usage |-> 0]
NoError == [status_code |-> 0, detail |-> None]
HTTPException(status_code, detail) == [status_code |-> status_code, detail |-> detail]

-----------------------------------------------------------------------------
(* Request handlers *)

\* texts a user posts: a short one, and one that alone exceeds the configured limit
UserContents == {40, 4 * CONTEXT_LIMIT + 4}
Modes == {OPEN_CHAT, RAG_CHAT}
\* the rag_context argument of process_user_message_and_get_reply: its default, or a text
CallerContexts == {NoText, 400}
\* _embedder.encode returns the embedding, or raises
EmbedderOutcomes == {"encoded", "raises"}
\* cosine similarities of a chunk to a query, as ranks
Scores == {1, 2}
\* the response to an exception no handler catches
InternalServerError == "Internal Server Error"

InitReq ==
    [pc |-> "idle", handler |-> None, request |-> 0, conversation_id |-> NoSuchConversation,
     user_message_content |-> NoText, document_ids |-> {},
     conversation |-> NoConversation, top_chunks |-> <<>>,
     next_seq |-> 0, user_message |-> NoMessage, rag_context |-> NoText,
     history |-> <<>>, processed_history |-> <<>>, messages_payload |-> <<>>,
     attempt |-> 0, calls |-> <<>>, sleeps |-> <<>>, llm_result |-> NoResult,
     assistant_message |-> NoMessage, error |-> NoError]

\* a handler takes its next request; requests for turns are not taken while a delete
\* request is being served
Accepting(p) ==
    /\ req[p].pc \in {"idle", "done", "failed"}
    /\ started < MaxRequests
    /\ admin.pc = "idle"

TurnFrame ==
    UNCHANGED <<context_limit, client, workers, provider, conversations, started, win,
                DocTables, upload, rank, chunker, admin, counted>>

\* router.start_new_conversation, step 1: create_initial_conversation commits the
\* conversation and the first message with sequence number 1
StartNewConversation(p) ==
    /\ Accepting(p)
    /\ \E mode \in Modes, first_message \in UserContents, document_ids \in SUBSET DocumentIds :
          LET conversation_id == Uuid(started + 1, "conversation")
              user_message == Message(Uuid(started + 1, "first"), conversation_id, 1,
                                      USER, first_message, None)
          IN  /\ conversations' = conversations @@
                    (conversation_id :> [mode |-> mode, token_count |-> 0])
              /\ messages' = messages \cup {user_message}
              /\ req' = [req EXCEPT ![p] =
                    [InitReq EXCEPT !.pc = "collect", !.handler = "start",
                                    !.request = started + 1,
                                    !.conversation_id = conversation_id,
                                    !.user_message_content = first_message,
                                    !.document_ids = document_ids]]
    /\ started' = started + 1
    /\ UNCHANGED <<context_limit, client, workers, provider, win,
                 DocTables, upload, rank, chunker, admin, counted>>

\* router.start_new_conversation, steps 2 and 3: the documents named in the request
\* and the pending uploads of the user are linked if they are READY when the handler
\* looks (it polls each for up to 5s); the recent entries leave the pending list
CollectDocuments(p) ==
    /\ req[p].pc = "collect"
    /\ LET pending_docs == pending_documents_store
           recent_docs == {pending_docs[i].document_id :
                              i \in {j \in 1..Len(pending_docs) : pending_docs[j].recent}}
           all_doc_ids == {d \in req[p].document_ids \cup recent_docs : IsReady(d)}
       IN  /\ pending_documents_store' =
                  SelectSeq(pending_docs, LAMBDA entry : ~entry.recent)
           /\ conversation_document_link' = conversation_document_link \cup
                  link_documents_to_conversation(req[p].conversation_id, all_doc_ids)
    /\ req' = [req EXCEPT ![p].pc = "fetch"]
    /\ UNCHANGED <<context_limit, client, workers, provider, conversations, messages, started,
                   win, documents, document_chunks, upload, rank,
                   chunker, admin, counted>>

\* router.continue_conversation: 404 unless the conversation exists, then
\* process_user_message_and_get_reply
ContinueConversation(p) ==
    /\ Accepting(p)
    /\ \E conversation_id \in ConversationIds \cup {NoSuchConversation},
          user_message \in UserContents :
          req' = [req EXCEPT ![p] =
              IF conversation_id \in ConversationIds
              THEN [InitReq EXCEPT !.pc = "fetch", !.handler = "continue",
                                   !.request = started + 1,
                                   !.conversation_id = conversation_id,
                                   !.user_message_content = user_message]
              ELSE [InitReq EXCEPT !.pc = "failed", !.handler = "continue",
                                   !.request = started + 1,
                                   !.conversation_id = conversation_id,
                                   !.user_message_content = user_message,
                                   !.error = HTTPException(404,
                                       "Conversation not found or unauthorized access.")]]
    /\ started' = started + 1
    /\ UNCHANGED <<context_limit, client, workers, provider, conversations, messages, win,
                 DocTables, upload, rank, chunker, admin, counted>>

\* process_user_message_and_get_reply(db, conversation_id, user_message_content,
\* rag_context), step 1: fetch the conversation
FetchConversation(p) ==
    /\ req[p].pc = "fetch"
    /\ \E rag_context \in CallerContexts :
          req' = [req EXCEPT ![p] =
              IF req[p].conversation_id \in ConversationIds
              THEN [@ EXCEPT !.pc = "read_seq", !.rag_context = rag_context,
                             !.conversation = get_conversation_detail(req[p].conversation_id)]
              ELSE [@ EXCEPT !.pc = "failed", !.rag_context = rag_context,
                             !.error = HTTPException(404, "Conversation not found.")]]
    /\ UNCHANGED messages
    /\ TurnFrame

\* add_user_message: next_seq = _get_next_sequence_number(db, conversation_id)
ReadUserSequence(p) ==
    /\ req[p].pc = "read_seq"
    /\ req' = [req EXCEPT ![p].pc = "add_user",
                          ![p].next_seq = _get_next_sequence_number(req[p].conversation_id)]
    /\ UNCHANGED messages
    /\ TurnFrame

AddUserMessage_uncommitted(p) ==
    /\ req[p].pc = "add_user"
    /\ req' = [req EXCEPT ![p].pc = "retrieve",
                          ![p].user_message =
                              Message(Uuid(req[p].request, "user"), req[p].conversation_id,
                                      req[p].next_seq, USER,
                                      req[p].user_message_content, None),
                          ![p].conversation =
                              get_conversation_detail(req[p].conversation_id)]
    /\ UNCHANGED messages
    /\ TurnFrame

\* add_user_message: the row is added and committed; then db.refresh(conversation)
AddUserMessage(p) ==
    /\ req[p].pc = "add_user"
    /\ LET user_message == Message(Uuid(req[p].request, "user"), req[p].conversation_id,
                                   req[p].next_seq, USER, req[p].user_message_content, None)
       IN  /\ messages' = messages \cup {user_message}
           /\ req' = [req EXCEPT ![p].pc = "retrieve",
                                 ![p].user_message = user_message,
                                 ![p].conversation =
                                     get_conversation_detail(req[p].conversation_id)]
    /\ UNCHANGED <<context_limit, client, workers, provider, conversations, started, win,
                 DocTables, upload, rank, chunker, admin, counted>>

\* the chunks retrieve_context_for_query scores: those of the linked documents
LinkedChunks(conversation_id) ==
    LET document_ids == {row.document_id :
                            row \in {l \in conversation_document_link :
                                         l.conversation_id = conversation_id}}
    IN  {c \in document_chunks : c.document_id \in document_ids}

RetrieveContext_always(p) ==
    /\ req[p].pc = "retrieve"
    /\ LET chunks == LinkedChunks(req[p].conversation_id)
       IN  \/ /\ chunks = {}
              /\ req' = [req EXCEPT ![p].pc = "history", ![p].rag_context = NoText]
           \/ /\ chunks # {}
              /\ \E scan \in ScanOrders(chunks), scores \in [1..Cardinality(chunks) -> Scores] :
                    LET top == top_chunks(score_chunks(scan, scores))
                    IN  req' = [req EXCEPT ![p].pc = "history", ![p].top_chunks = top,
                                           ![p].rag_context = merged_context(top)]
    /\ UNCHANGED messages
    /\ TurnFrame

RetrieveContext_missing_raises(p) ==
    /\ req[p].pc = "retrieve"
    /\ LET chunks == LinkedChunks(req[p].conversation_id)
       IN  \/ /\ req[p].conversation.mode # RAG_CHAT
              /\ req' = [req EXCEPT ![p].pc = "history", ![p].rag_context = NoText]
           \/ /\ req[p].conversation.mode = RAG_CHAT
              /\ chunks = {}
              /\ req' = [req EXCEPT ![p].pc = "failed",
                                    ![p].error = HTTPException(500, InternalServerError)]
           \/ /\ req[p].conversation.mode = RAG_CHAT
              /\ chunks # {}
              /\ \E encoded \in EmbedderOutcomes, scan \in ScanOrders(chunks),
                    scores \in [1..Cardinality(chunks) -> Scores] :
                    LET top == top_chunks(score_chunks(scan, scores))
                    IN  req' = [req EXCEPT ![p] =
                            IF encoded = "raises"
                            THEN [@ EXCEPT !.pc = "failed",
                                           !.error = HTTPException(500, InternalServerError)]
                            ELSE [@ EXCEPT !.pc = "history", !.top_chunks = top,
                                           !.rag_context = merged_context(top)]]
    /\ UNCHANGED messages
    /\ TurnFrame

\* step 3: rag_context = None, and for a RAG_CHAT conversation retrieve_context_for_query:
\* None without links or chunks; else the query is encoded (_embedder.encode, which
\* may raise: nothing on the way to the HTTP response catches it), the chunks are scored
\* and the best are merged
RetrieveContext(p) ==
    /\ req[p].pc = "retrieve"
    /\ LET chunks == LinkedChunks(req[p].conversation_id)
       IN  \/ /\ req[p].conversation.mode # RAG_CHAT \/ chunks = {}
              /\ req' = [req EXCEPT ![p].pc = "history", ![p].rag_context = NoText]
           \/ /\ req[p].conversation.mode = RAG_CHAT
              /\ chunks # {}
              /\ \E encoded \in EmbedderOutcomes, scan \in ScanOrders(chunks),
                    scores \in [1..Cardinality(chunks) -> Scores] :
                    LET top == top_chunks(score_chunks(scan, scores))
                    IN  req' = [req EXCEPT ![p] =
                            IF encoded = "raises"
                            THEN [@ EXCEPT !.pc = "failed",
                                           !.error = HTTPException(500, InternalServerError)]
                            ELSE [@ EXCEPT !.pc = "history", !.top_chunks = top,
                                           !.rag_context = merged_context(top)]]
    /\ UNCHANGED messages
    /\ TurnFrame

\* steps 4 and 5: history = conversation.messages, then call_llm_api up to its
\* retry loop: the client check, manage_context_window, format_messages_for_llm
EnterLlmCall(p) ==
    /\ req[p].pc = "history"
    /\ \E history \in OrderedBySequence(MessagesOf(req[p].conversation_id)) :
          req' = [req EXCEPT ![p] =
              IF client = None
              THEN [@ EXCEPT !.pc = "failed", !.history = history,
                             !.error = HTTPException(500,
                                 "Groq Client is not initialized. Check server logs for API key errors.")]
              ELSE LET processed_history ==
                           manage_context_window(history, req[p].rag_context)
                   IN  [@ EXCEPT !.pc = "attempt", !.history = history,
                                 !.processed_history = processed_history,
                                 !.messages_payload =
                                     format_messages_for_llm(processed_history,
                                                             req[p].rag_context),
                                 !.attempt = 0]]
    /\ UNCHANGED messages
    /\ TurnFrame

\* wait_time = 2 ** attempt
backoff_wait(attempt) == 2 ^ attempt

after_attempt_one_more(attempt, outcome) ==
    IF outcome.kind = "choices" THEN "return"
    ELSE IF IsAPIError(outcome)
         THEN IF attempt < MAX_RETRIES THEN "sleep" ELSE "unavailable"
         ELSE "unknown_error"

after_attempt_retry_empty(attempt, outcome) ==
    IF outcome.kind = "choices" THEN "return"
    ELSE IF IsAPIError(outcome) \/ outcome.kind = "no_choices"
         THEN IF attempt < MAX_RETRIES - 1 THEN "sleep" ELSE "unavailable"
         ELSE "unknown_error"

\* what one iteration of the retry loop does with the outcome of its call: return the
\* reply, sleep and go on, or raise one of the two 503 errors
after_attempt(attempt, outcome) ==
    IF outcome.kind = "choices" THEN "return"
    ELSE IF IsAPIError(outcome)
         THEN IF attempt < MAX_RETRIES - 1 THEN "sleep" ELSE "unavailable"
         ELSE "unknown_error"

llm_reply_unmetered(outcome) ==
    [content |-> outcome.content, model |-> LLM_MODEL, token_usage |-> 0]

\* the dictionary call_llm_api returns
llm_reply(outcome) ==
    [content |-> outcome.content, model |-> LLM_MODEL,
     token_usage |-> IF outcome.usage # NoUsage THEN outcome.usage ELSE 0]

\* one iteration of `for attempt in range(MAX_RETRIES)`: the call, sent
\* messages_payload, and its handlers; past the last iteration, the fallback raise
ProviderAttempt(p) ==
    /\ req[p].pc = "attempt"
    /\ \E outcome \in provider :
          LET step == after_attempt(req[p].attempt, outcome)
              called == [req[p] EXCEPT !.calls =
                            Append(@, [messages |-> req[p].messages_payload,
                                       outcome |-> outcome])]
          IN  req' = [req EXCEPT ![p] =
                  CASE req[p].attempt >= MAX_RETRIES ->
                         [@ EXCEPT !.pc = "failed",
                              !.error = HTTPException(503,
                                  "LLM service failed after all retries.")]
                    [] step = "return" ->
                         [called EXCEPT !.pc = "read_reply_seq",
                                        !.llm_result = llm_reply(outcome)]
                    [] step = "sleep" ->
                         [called EXCEPT !.pc = "sleep"]
                    [] step = "unavailable" ->
                         [called EXCEPT !.pc = "failed",
                              !.error = HTTPException(503,
                                  "External Groq service is unavailable after multiple retries.")]
                    [] OTHER ->
                         [called EXCEPT !.pc = "failed",
                              !.error = HTTPException(503,
                                  "External Groq service failed due to an unknown error.")]]
    /\ UNCHANGED messages
    /\ TurnFrame

\* await asyncio.sleep(wait_time), then the next iteration
BackoffSleep(p) ==
    /\ req[p].pc = "sleep"
    /\ req' = [req EXCEPT ![p].pc = "attempt",
                          ![p].sleeps = Append(@, backoff_wait(req[p].attempt)),
                          ![p].attempt = @ + 1]
    /\ UNCHANGED messages
    /\ TurnFrame

ReadReplySequence_reuse(p) ==
    /\ req[p].pc = "read_reply_seq"
    /\ req' = [req EXCEPT ![p].pc = "save_reply"]
    /\ UNCHANGED messages
    /\ TurnFrame

\* step 6: next_seq = _get_next_sequence_number(db, conversation_id)
ReadReplySequence(p) ==
    /\ req[p].pc = "read_reply_seq"
    /\ req' = [req EXCEPT ![p].pc = "save_reply",
                          ![p].next_seq = _get_next_sequence_number(req[p].conversation_id)]
    /\ UNCHANGED messages
    /\ TurnFrame

updated_token_count_reset(conversation, llm_result) ==
    llm_result.token_usage

\* conversation.token_count += llm_result.get('token_usage', 0)
updated_token_count(conversation, llm_result) ==
    conversation.token_count + llm_result.token_usage

\* steps 6 and 7: the assistant row, conversation.token_count += token_usage, commit
SaveAssistantMessage(p) ==
    /\ req[p].pc = "save_reply"
    /\ LET assistant_message ==
               Message(Uuid(req[p].request, "assistant"), req[p].conversation_id,
                       req[p].next_seq, ASSISTANT,
                       req[p].llm_result.content, req[p].llm_result.model)
           token_count == updated_token_count(req[p].conversation, req[p].llm_result)
       IN  /\ messages' = messages \cup {assistant_message}
           /\ conversations' = [conversations EXCEPT
                  ![req[p].conversation_id].token_count = token_count]
           /\ req' = [req EXCEPT ![p].pc = "done",
                                 ![p].assistant_message = assistant_message,
                                 ![p].conversation.token_count = token_count]
    /\ UNCHANGED <<context_limit, client, workers, provider, started, win,
                 DocTables, upload, rank, chunker, admin, counted>>

-----------------------------------------------------------------------------
(* The upload handler: router.upload_document and                          *)
(* document_processor.process_document_upload                              *)

NoDocument == Uuid(0, "document")
\* the extension of the uploaded file's name
FileExtensions == {"pdf", "txt"}
\* what _read_and_clean_pdf extracts: no text, whitespace alone, a text of one chunk,
\* and one of three chunks of which the second is whitespace alone
ExtractedTexts ==
    {<<>>, <<Run(FALSE, 300)>>, <<Run(TRUE, 300)>>,
     <<Run(TRUE, 400), Run(FALSE, 700), Run(TRUE, 300)>>}
ExtractionOutcomes == {"text", "raises"}
\* f"Document processing failed: {e}", for the exception of the reader and of the embedder
ExtractionFailed == "Document processing failed: extraction"
EmbeddingFailed == "Document processing failed: embedding"

\* the module global of router.py that holds the pending uploads of the user
pending_documents_store_initial == <<>>

UploadIdle == [pc |-> "idle", count |-> 0, document_id |-> NoDocument, text |-> <<>>,
               error |-> NoError]

UploadFrame ==
    UNCHANGED <<context_limit, client, workers, provider, conversations, messages, started,
                req, win, conversation_document_link, rank, chunker, admin, counted>>

\* upload_document: only a PDF is accepted; create_document_and_link commits the
\* document row, with processing_status 'READY'
UploadDocument ==
    /\ upload.pc \in {"idle", "done", "failed"}
    /\ upload.count < MaxUploads
    /\ \E extension \in FileExtensions :
          IF extension # "pdf"
          THEN /\ upload' = [UploadIdle EXCEPT !.pc = "failed", !.count = upload.count + 1,
                                 !.error = HTTPException(400,
                                     "Only PDF files are currently supported.")]
               /\ UNCHANGED documents
          ELSE LET document_id == Uuid(upload.count + 1, "document")
               IN  /\ documents' = documents @@
                          (document_id :> [processing_status |-> READY])
                   /\ upload' = [UploadIdle EXCEPT !.pc = "created",
                                     !.count = upload.count + 1,
                                     !.document_id = document_id]
    /\ UNCHANGED <<document_chunks, pending_documents_store>>
    /\ UploadFrame

\* document.processing_status = ProcessingStatus.CHUNKING; db.commit()
MarkChunking ==
    /\ upload.pc = "created"
    /\ documents' = [documents EXCEPT ![upload.document_id].processing_status = CHUNKING]
    /\ upload' = [upload EXCEPT !.pc = "chunking"]
    /\ UNCHANGED <<document_chunks, pending_documents_store>>
    /\ UploadFrame

chunk_rows_unfiltered(document_id, text) ==
    LET chunk_contents == _chunk_text(text)
    IN  {DocumentChunk(Uuid(<<document_id[1], i>>, "chunk"), document_id,
                       chunk_contents[i].content,
                       "vector", i - 1) : i \in 1..Len(chunk_contents)}

\* the chunk rows _generate_and_save_chunks adds for a text
chunk_rows(document_id, text) ==
    LET chunks == _chunk_text(text)
        chunk_contents == SelectSeq(chunks, LAMBDA c : Stripped(c.content))
    IN  {DocumentChunk(Uuid(<<document_id[1], i>>, "chunk"), document_id,
                       chunk_contents[i].content,
                       "vector", i - 1) : i \in 1..Len(chunk_contents)}

status_after_chunks_unchanged(rows, processing_status) ==
    processing_status

\* _generate_and_save_chunks returns early without usable content; else it sets READY
status_after_chunks(rows, processing_status) ==
    IF rows = {} THEN processing_status ELSE READY

\* _read_and_clean_pdf and process_document: the chunks and the READY status are
\* committed together, nothing is committed for a text without usable content, and an
\* exception marks the document FAILED; upload_document then notes the document in
\* the pending list
ProcessDocument ==
    /\ upload.pc = "chunking"
    /\ \E extraction \in ExtractionOutcomes, text \in ExtractedTexts,
          encoded \in EmbedderOutcomes :
          LET rows == chunk_rows(upload.document_id, text)
          IN  IF extraction = "raises" \/ (rows # {} /\ encoded = "raises")
              THEN /\ documents' = [documents EXCEPT
                          ![upload.document_id].processing_status = FAILED]
                   /\ upload' = [upload EXCEPT !.pc = "failed",
                                     !.error = HTTPException(500,
                                         IF extraction = "raises" THEN ExtractionFailed
                                         ELSE EmbeddingFailed)]
                   /\ UNCHANGED <<document_chunks, pending_documents_store>>
              ELSE /\ document_chunks' = document_chunks \cup rows
                   /\ documents' = [documents EXCEPT
                          ![upload.document_id].processing_status =
                              status_after_chunks(rows, @)]
                   /\ pending_documents_store' =
                          Append(pending_documents_store,
                                 [document_id |-> upload.document_id, recent |-> TRUE])
                   /\ upload' = [upload EXCEPT !.pc = "done", !.text = text]
    /\ UploadFrame

-----------------------------------------------------------------------------
(* Direct runs of the ranking of retrieve_context_for_query on chosen chunks *)

Embeddings == {"vector", "malformed"}

RankIdle == [stage |-> "none", chunks |-> <<>>, scores |-> <<>>, top |-> <<>>,
             joined |-> joined(<<>>), context |-> NoText]

\* which of n stored chunks hold whitespace alone: none, all of them, the first
BlankPatterns(n) == {{}, 1..n, 1..n \cap {1}}

\* n chunks in scan order, of distinct lengths
MkChunks(embeddings, blanks) ==
    [i \in 1..Len(embeddings) |->
        DocumentChunk(Uuid(<<0, i>>, "chunk"), NoDocument,
                      [len |-> 100 + i, ink |-> IF i \in blanks THEN 0 ELSE 100 + i],
                      embeddings[i], i - 1)]

RankChunks ==
    /\ rank.stage = "input"
    /\ LET top == top_chunks(score_chunks(rank.chunks, rank.scores))
       IN  rank' = [rank EXCEPT !.stage = "ranked", !.top = top,
                                !.joined = joined(top),
                                !.context = merged_context(top)]
    /\ UNCHANGED <<context_limit, client, workers, provider, conversations, messages, started,
                   req, win, DocTables, upload, chunker, admin, counted>>

-----------------------------------------------------------------------------
(* Direct calls of count_tokens *)

\* None, the empty text, and texts of every length up to MaxCounted
CountedTexts == {NoText} \cup 0..MaxCounted

CountIdle == [stage |-> "none", text |-> NoText, tokens |-> 0]

CountTokens ==
    /\ counted.stage = "called"
    /\ counted' = [counted EXCEPT !.stage = "returned",
                                  !.tokens = count_tokens(counted.text)]
    /\ UNCHANGED <<context_limit, client, workers, provider, conversations, messages, started,
                   req, win, DocTables, upload, rank, chunker, admin>>

-----------------------------------------------------------------------------
(* Direct runs of _chunk_text(text, chunk_size, chunk_overlap), one iteration of its *)
(* loop at a time                                                                   *)

\* the configuration of the service, one that does not advance, one that goes backwards
ChunkConfigurations ==
    {[chunk_size |-> CHUNK_SIZE, chunk_overlap |-> CHUNK_OVERLAP],
     [chunk_size |-> 50, chunk_overlap |-> 50],
     [chunk_size |-> 50, chunk_overlap |-> 60]}

\* texts of every length up to MaxTextLen: without whitespace, or whitespace after the
\* first character
ChunkTexts ==
    {<<>>} \cup {<<Run(TRUE, n)>> : n \in 1..MaxTextLen}
           \cup {<<Run(TRUE, 1), Run(FALSE, n - 1)>> : n \in 2..MaxTextLen}

ChunkerIdle == [stage |-> "none", text |-> <<>>, chunk_size |-> 0, chunk_overlap |-> 0,
                i |-> 0, chunks |-> <<>>, iterations |-> 0]

ChunkerFrame ==
    UNCHANGED <<context_limit, client, workers, provider, conversations, messages, started,
                req, win, DocTables, upload, rank, admin, counted>>

\* if not text: return []; chunks = []; i = 0
ChunkTextEnter ==
    /\ chunker.stage = "called"
    /\ chunker' = [chunker EXCEPT
           !.stage = IF TextLen(chunker.text) = 0 THEN "returned" ELSE "loop"]
    /\ ChunkerFrame

\* the test of the while loop, and one iteration of it
ChunkTextIterate ==
    /\ chunker.stage = "loop"
    /\ chunker.iterations < MaxIterations
    /\ chunker' =
          IF ~(chunker.i < TextLen(chunker.text))
          THEN [chunker EXCEPT !.stage = "returned"]
          ELSE LET iteration == chunk_iteration(chunker.text, chunker.chunk_size,
                                                chunker.chunk_overlap, chunker.i,
                                                chunker.chunks)
               IN  [chunker EXCEPT !.stage = IF iteration.break THEN "returned" ELSE "loop",
                                   !.i = iteration.i, !.chunks = iteration.chunks,
                                   !.iterations = chunker.iterations + 1]
    /\ ChunkerFrame

-----------------------------------------------------------------------------
(* The link endpoint and the delete endpoint of router.py, one request at a time *)

\* every conversation id the service hands out
AllConversationIds == {Uuid(n, "conversation") : n \in 1..MaxRequests}
LibraryDocumentIds == {Uuid(n, "document") : n \in 1..2}

AdminIdle == [pc |-> "idle", links |-> 0, deletes |-> 0,
              conversation_id |-> NoSuchConversation, error |-> NoError]

\* no turn and no upload is being served: the link and delete requests, and the passing
\* of days, are taken between the other requests
Quiet ==
    /\ \A p \in workers : req[p].pc \in {"idle", "done", "failed"}
    /\ upload.pc \in {"idle", "done", "failed"}

AdminFrame ==
    UNCHANGED <<context_limit, client, workers, provider, started, req, win, upload, rank,
                chunker, counted>>

\* a set of ids in the order a request lists them
RECURSIVE Listed(_)
Listed(ids) ==
    IF ids = {} THEN <<>>
    ELSE LET first == CHOOSE d \in ids : \A e \in ids : d[1] <= e[1]
         IN  <<first>> \o Listed(ids \ {first})

\* link_docs_to_conversation(document_ids, conversation_id): with a conversation id,
\* 404 unless the conversation exists, else link_documents_to_conversation; without
\* one, the ids go to the pending list
LinkDocsToConversation_unchecked ==
    /\ admin.pc = "idle"
    /\ Quiet
    /\ admin.links < MaxLinks
    /\ \E given \in BOOLEAN, conversation_id \in AllConversationIds,
          document_ids \in SUBSET LibraryDocumentIds :
          IF ~given
          THEN /\ pending_documents_store' = pending_documents_store \o
                      [i \in 1..Cardinality(document_ids) |->
                          [document_id |-> Listed(document_ids)[i], recent |-> TRUE]]
               /\ admin' = [admin EXCEPT !.links = admin.links + 1,
                                         !.conversation_id = NoSuchConversation,
                                         !.error = NoError]
               /\ UNCHANGED conversation_document_link
          ELSE /\ conversation_document_link' = conversation_document_link \cup
                      link_documents_to_conversation(conversation_id, document_ids)
               /\ admin' = [admin EXCEPT
                      !.links = admin.links + 1,
                      !.conversation_id = conversation_id,
                      !.error = IF conversation_id \in ConversationIds THEN NoError
                                ELSE HTTPException(404,
                                         "Conversation not found or unauthorized access.")]
               /\ UNCHANGED pending_documents_store
    /\ UNCHANGED <<conversations, messages, documents, document_chunks>>
    /\ AdminFrame

LinkDocsToConversation ==
    /\ admin.pc = "idle"
    /\ Quiet
    /\ admin.links < MaxLinks
    /\ \E given \in BOOLEAN, conversation_id \in AllConversationIds,
          document_ids \in SUBSET LibraryDocumentIds :
          IF ~given
          THEN /\ pending_documents_store' = pending_documents_store \o
                      [i \in 1..Cardinality(document_ids) |->
                          [document_id |-> Listed(document_ids)[i], recent |-> TRUE]]
               /\ admin' = [admin EXCEPT !.links = admin.links + 1,
                                         !.conversation_id = NoSuchConversation,
                                         !.error = NoError]
               /\ UNCHANGED conversation_document_link
          ELSE IF conversation_id \notin ConversationIds
          THEN /\ admin' = [admin EXCEPT !.links = admin.links + 1,
                                         !.conversation_id = conversation_id,
                                         !.error = HTTPException(404,
                                             "Conversation not found or unauthorized access.")]
               /\ UNCHANGED <<conversation_document_link, pending_documents_store>>
          ELSE /\ conversation_document_link' = conversation_document_link \cup
                      link_documents_to_conversation(conversation_id, document_ids)
               /\ admin' = [admin EXCEPT !.links = admin.links + 1,
                                         !.conversation_id = conversation_id,
                                         !.error = NoError]
               /\ UNCHANGED pending_documents_store
    /\ UNCHANGED <<conversations, messages, documents, document_chunks>>
    /\ AdminFrame

documents_to_delete_all(conversation_id, links) ==
    {l.document_id : l \in {k \in links : k.conversation_id = conversation_id}}

\* delete_documents_for_conversation, step 3: of the documents that were linked to the
\* conversation, those that no link names once the conversation's links are deleted
documents_to_delete(conversation_id, links) ==
    LET document_ids == {l.document_id :
                            l \in {k \in links : k.conversation_id = conversation_id}}
        remaining == {k \in links : k.conversation_id # conversation_id}
    IN  {d \in document_ids : Cardinality({k \in remaining : k.document_id = d}) = 0}

\* router.delete_conversation up to the commit of delete_documents_for_conversation:
\* 404 unless the conversation exists; else its links are deleted, and the documents
\* nothing links any more with their chunks
DeleteDocumentsForConversation ==
    /\ admin.pc = "idle"
    /\ Quiet
    /\ admin.deletes < MaxDeletes
    /\ \E conversation_id \in AllConversationIds :
          IF conversation_id \notin ConversationIds
          THEN /\ admin' = [admin EXCEPT !.deletes = admin.deletes + 1,
                                         !.conversation_id = conversation_id,
                                         !.error = HTTPException(404,
                                             "Conversation not found or unauthorized access.")]
               /\ UNCHANGED <<documents, document_chunks, conversation_document_link>>
          ELSE LET gone == documents_to_delete(conversation_id, conversation_document_link)
               IN  /\ conversation_document_link' =
                          {k \in conversation_document_link :
                              k.conversation_id # conversation_id}
                   /\ document_chunks' = {c \in document_chunks : c.document_id \notin gone}
                   /\ documents' = [d \in DOMAIN documents \ gone |-> documents[d]]
                   /\ admin' = [admin EXCEPT !.pc = "documents_deleted",
                                             !.deletes = admin.deletes + 1,
                                             !.conversation_id = conversation_id,
                                             !.error = NoError]
    /\ UNCHANGED <<conversations, messages, pending_documents_store>>
    /\ AdminFrame

messages_after_delete_kept(conversation_id) ==
    messages

\* the messages the database keeps when a conversation row is deleted: the foreign key
\* of messages.conversation_id is declared ON DELETE CASCADE
messages_after_delete(conversation_id) ==
    {m \in messages : m.conversation_id # conversation_id}

\* services.delete_conversation: the conversation row is deleted and the commit made
DeleteConversation ==
    /\ admin.pc = "documents_deleted"
    /\ conversations' = [c \in DOMAIN conversations \ {admin.conversation_id} |->
                             conversations[c]]
    /\ messages' = messages_after_delete(admin.conversation_id)
    /\ admin' = [admin EXCEPT !.pc = "idle"]
    /\ UNCHANGED DocTables
    /\ AdminFrame

-----------------------------------------------------------------------------
(* The service: request handlers running concurrently against one database *)

\* no document yet, and no upload under way
DocsInit ==
    /\ documents = <<>>
    /\ document_chunks = {}
    /\ conversation_document_link = {}
    /\ pending_documents_store = pending_documents_store_initial
    /\ upload = UploadIdle
    /\ admin = AdminIdle
    /\ counted = CountIdle

Init ==
    /\ context_limit = CONTEXT_LIMIT
    /\ client \in {"Groq", None}
    /\ workers = {"h1"}
    /\ provider = ProviderOutcomes
    /\ conversations = <<>>
    /\ messages = {}
    /\ started = 0
    /\ req = [p \in Procs |-> InitReq]
    /\ win = WinIdle
    /\ DocsInit
    /\ rank = RankIdle
    /\ chunker = ChunkerIdle

Turns ==
    \E p \in workers :
        \/ StartNewConversation(p)
        \/ CollectDocuments(p)
        \/ ContinueConversation(p)
        \/ FetchConversation(p)
        \/ ReadUserSequence(p)
        \/ AddUserMessage(p)
        \/ RetrieveContext(p)
        \/ EnterLlmCall(p)
        \/ ProviderAttempt(p)
        \/ BackoffSleep(p)
        \/ ReadReplySequence(p)
        \/ SaveAssistantMessage(p)

Uploads == UploadDocument \/ MarkChunking \/ ProcessDocument

Next == Turns \/ Uploads

Spec == Init /\ [][Next]_vars

(* two handlers side by side, the provider answering or refusing for its rate limit, *)
(* no upload *)

InitConcurrent ==
    /\ context_limit = CONTEXT_LIMIT
    /\ client = "Groq"
    /\ workers = Procs
    /\ provider = {o \in ProviderOutcomes :
                      o.kind = "RateLimitError" \/ (o.kind = "choices" /\ o.usage # NoUsage)}
    /\ conversations = <<>>
    /\ messages = {}
    /\ started = 0
    /\ req = [p \in Procs |-> InitReq]
    /\ win = WinIdle
    /\ DocsInit
    /\ rank = RankIdle
    /\ chunker = ChunkerIdle

SpecConcurrent == InitConcurrent /\ [][Turns]_vars

(* manage_context_window called directly on chosen inputs *)

InitWindow ==
    /\ context_limit \in {CONTEXT_LIMIT, TestContextLimit}
    /\ client = "Groq"
    /\ workers = {}
    /\ provider = {}
    /\ conversations = <<>>
    /\ messages = {}
    /\ started = 0
    /\ req = [p \in Procs |-> InitReq]
    /\ \E contents \in WindowHistories, rag_context \in WindowRagContexts :
          win = [WinIdle EXCEPT !.stage = "input", !.contents = contents,
                                !.rag_context = rag_context]
    /\ DocsInit
    /\ rank = RankIdle
    /\ chunker = ChunkerIdle

NextWindow == WindowSelect \/ WindowReselect \/ WindowPrepend

SpecWindow == InitWindow /\ [][NextWindow]_vars

(* the ranking run directly on chosen chunks and scores *)

InitRetrieval ==
    /\ context_limit = CONTEXT_LIMIT
    /\ client = "Groq"
    /\ workers = {}
    /\ provider = {}
    /\ conversations = <<>>
    /\ messages = {}
    /\ started = 0
    /\ req = [p \in Procs |-> InitReq]
    /\ win = WinIdle
    /\ DocsInit
    /\ \E n \in 0..MaxCandidates :
          \E embeddings \in [1..n -> Embeddings], scores \in [1..n -> Scores],
             blanks \in BlankPatterns(n) :
             rank = [RankIdle EXCEPT !.stage = "input",
                                     !.chunks = MkChunks(embeddings, blanks),
                                     !.scores = scores]
    /\ chunker = ChunkerIdle

NextRetrieval == RankChunks

SpecRetrieval == InitRetrieval /\ [][NextRetrieval]_vars

(* _chunk_text called directly on chosen texts and configurations *)

InitChunking ==
    /\ context_limit = CONTEXT_LIMIT
    /\ client = "Groq"
    /\ workers = {}
    /\ provider = {}
    /\ conversations = <<>>
    /\ messages = {}
    /\ started = 0
    /\ req = [p \in Procs |-> InitReq]
    /\ win = WinIdle
    /\ DocsInit
    /\ rank = RankIdle
    /\ \E text \in ChunkTexts, configuration \in ChunkConfigurations :
          chunker = [ChunkerIdle EXCEPT !.stage = "called", !.text = text,
                                        !.chunk_size = configuration.chunk_size,
                                        !.chunk_overlap = configuration.chunk_overlap]

NextChunking == ChunkTextEnter \/ ChunkTextIterate

SpecChunking == InitChunking /\ [][NextChunking]_vars

(* the link and delete endpoints, on the database two conversations and two uploads *)
(* leave behind                                                                     *)

\* how an upload can have left its document: with its chunks, without usable content,
\* or failed
LibraryUploads == {"chunks", "nothing", "raises"}

LibraryText(n) ==
    IF n = 1 THEN <<Run(TRUE, 400), Run(FALSE, 700), Run(TRUE, 300)>>
    ELSE <<Run(TRUE, 300)>>

\* the turns of conversation n, started without an LLM client: the first message, and
\* the user turn process_user_message_and_get_reply saved before the call failed
LibraryMessages(n) ==
    {Message(Uuid(n, "first"), Uuid(n, "conversation"), 1, USER, 40, None),
     Message(Uuid(n, "user"), Uuid(n, "conversation"), 2, USER, 40, None)}

InitLibrary ==
    /\ context_limit = CONTEXT_LIMIT
    /\ client = None
    /\ workers = {}
    /\ provider = {}
    /\ conversations = [c \in AllConversationIds |->
                           [mode |-> IF c[1] = 1 THEN RAG_CHAT ELSE OPEN_CHAT,
                            token_count |-> 0]]
    /\ messages = UNION {LibraryMessages(n) : n \in 1..MaxRequests}
    /\ started = MaxRequests
    /\ req = [p \in Procs |-> InitReq]
    /\ win = WinIdle
    /\ \E outcome \in [1..2 -> LibraryUploads] :
          /\ documents = [d \in LibraryDocumentIds |->
                 [processing_status |->
                     IF outcome[d[1]] = "chunks" THEN READY
                     ELSE IF outcome[d[1]] = "nothing" THEN CHUNKING ELSE FAILED]]
          /\ document_chunks =
                 UNION {IF outcome[n] = "chunks"
                        THEN chunk_rows(Uuid(n, "document"), LibraryText(n)) ELSE {} :
                        n \in 1..2}
          /\ pending_documents_store =
                 SelectSeq([n \in 1..2 |->
                               [document_id |-> Uuid(n, "document"), recent |-> TRUE]],
                           LAMBDA entry : outcome[entry.document_id[1]] # "raises")
    /\ conversation_document_link = {}
    /\ upload = UploadIdle
    /\ admin = AdminIdle
    /\ counted = CountIdle
    /\ rank = RankIdle
    /\ chunker = ChunkerIdle

NextLibrary == LinkDocsToConversation \/ DeleteDocumentsForConversation \/ DeleteConversation

SpecLibrary == InitLibrary /\ [][NextLibrary]_vars

(* one handler for turns, one for uploads, and the fetch, link and delete requests  *)
(* between them, the provider answering every call; days may pass between requests *)

\* router.get_conversation_history: 404 unless the conversation exists, else the
\* conversation is returned; nothing is written
GetConversationHistory ==
    /\ admin.pc = "idle"
    /\ Quiet
    /\ \E conversation_id \in AllConversationIds :
          admin' = [admin EXCEPT
              !.conversation_id = conversation_id,
              !.error = IF conversation_id \in ConversationIds THEN NoError
                        ELSE HTTPException(404,
                                 "Conversation not found or unauthorized access.")]
    /\ UNCHANGED <<conversations, messages, DocTables>>
    /\ AdminFrame

\* more than seven days pass: every entry of the pending list is now older than the
\* cutoff start_new_conversation computes from datetime.utcnow()
SevenDaysPass ==
    /\ admin.pc = "idle"
    /\ Quiet
    /\ \E i \in 1..Len(pending_documents_store) : pending_documents_store[i].recent
    /\ pending_documents_store' =
          [i \in 1..Len(pending_documents_store) |->
              [pending_documents_store[i] EXCEPT !.recent = FALSE]]
    /\ UNCHANGED <<conversations, messages, documents, document_chunks,
                   conversation_document_link, admin>>
    /\ AdminFrame

\* the handler after the requests before the last, each a continue_conversation for a
\* conversation that does not exist
RejectedContinue ==
    [InitReq EXCEPT !.pc = "failed", !.handler = "continue",
                    !.request = MaxRequests - 1,
                    !.conversation_id = NoSuchConversation,
                    !.user_message_content = 40,
                    !.error = HTTPException(404,
                        "Conversation not found or unauthorized access.")]

InitRequests ==
    /\ context_limit = CONTEXT_LIMIT
    /\ client = "Groq"
    /\ workers = {"h1"}
    /\ provider = {o \in ProviderOutcomes : o.kind = "choices" /\ o.usage # NoUsage}
    /\ conversations = <<>>
    /\ messages = {}
    /\ started = MaxRequests - 1
    /\ req = [p \in Procs |-> IF p = "h1" THEN RejectedContinue ELSE InitReq]
    /\ win = WinIdle
    /\ DocsInit
    /\ rank = RankIdle
    /\ chunker = ChunkerIdle

NextRequests ==
    \/ Turns
    \/ Uploads
    \/ GetConversationHistory
    \/ LinkDocsToConversation
    \/ DeleteDocumentsForConversation
    \/ DeleteConversation
    \/ SevenDaysPass

SpecRequests == InitRequests /\ [][NextRequests]_vars

(* count_tokens called directly on chosen texts *)

InitTokens ==
    /\ context_limit = CONTEXT_LIMIT
    /\ client = "Groq"
    /\ workers = {}
    /\ provider = {}
    /\ conversations = <<>>
    /\ messages = {}
    /\ started = 0
    /\ req = [p \in Procs |-> InitReq]
    /\ win = WinIdle
    /\ documents = <<>>
    /\ document_chunks = {}
    /\ conversation_document_link = {}
    /\ pending_documents_store = pending_documents_store_initial
    /\ upload = UploadIdle
    /\ admin = AdminIdle
    /\ rank = RankIdle
    /\ chunker = ChunkerIdle
    /\ \E text \in CountedTexts :
          counted = [CountIdle EXCEPT !.stage = "called", !.text = text]

NextTokens == CountTokens

SpecTokens == InitTokens /\ [][NextTokens]_vars

-----------------------------------------------------------------------------
(* Properties of manage_context_window, checked under SpecWindow *)

\* estimated cost of the n most recent turns of history h
RECURSIVE SuffixCost(_, _)
SuffixCost(h, n) ==
    IF n = 0 THEN 0
    ELSE count_tokens(h[Len(h) - n + 1].content) + SuffixCost(h, n - 1)

\* the n most recent turns of h, oldest first
Suffix(h, n) == SubSeq(h, Len(h) - n + 1, Len(h))

\* the n most recent turns fit the budget beside the system prompt and the grounding text
Fits(h, rag_context, n) ==
    base_tokens(rag_context) + SuffixCost(h, n) <= context_limit

WindowDone == win.stage \in {"selected", "reselected"}

C4_Idempotent ==
    win.stage = "reselected" => win.again = win.result

\* a history that was truncated to two or more turns, and selected again
C4_Witness ==
    /\ win.stage = "reselected"
    /\ Len(win.result) >= 2
    /\ Len(win.result) < Len(WinHistory)
    /\ win.again = win.result

\* C5, as claimed: after turns that each exceed the budget are prepended to a history,
\* the result is empty.
C5_PrependedGivesEmpty ==
    (win.stage = "selected" /\ win.pre # <<>>) => win.result = <<>>

\* C5, amended: prepending turns that each exceed the budget leaves the result what it
\* was for the history without them: the same turns (now Len(pre) sequence numbers
\* later), hence empty only if it was empty before.
C5_PrependedChangesNothing ==
    (win.stage = "selected" /\ win.pre # <<>>) =>
        /\ Len(win.result) = Len(win.first_result)
        /\ \A i \in 1..Len(win.result) :
              /\ win.result[i].content = win.first_result[i].content
              /\ win.result[i].sequence_number =
                     win.first_result[i].sequence_number + Len(win.pre)

\* two over-budget turns prepended to a history whose two turns are both returned
C5_Witness ==
    /\ win.stage = "selected"
    /\ Len(win.pre) = 2
    /\ Len(win.contents) = 2
    /\ Len(win.result) = 2
    /\ \A i \in 1..2 : count_tokens(WinHistory[i].content) > context_limit

-----------------------------------------------------------------------------
(* Properties of a turn, checked under Spec unless said otherwise *)

\* call_llm_api has been entered by the turn handler p runs
LlmEntered(p) ==
    \/ req[p].pc \in {"attempt", "sleep", "read_reply_seq", "save_reply", "done"}
    \/ /\ req[p].pc = "failed"
       /\ req[p].error.status_code \in {500, 503}
       /\ req[p].error.detail # InternalServerError

\* the most recent turn of the history of p does not fit the budget beside the base tokens
NewestTooBig(p) ==
    LET h == req[p].history
    IN  /\ h # <<>>
        /\ base_tokens(req[p].rag_context) + count_tokens(h[Len(h)].content)
               > context_limit

SystemOnly(p) ==
    <<[role |-> "system", content |-> full_system_prompt(req[p].rag_context)]>>

C6_UserTurnLastInHistory ==
    \A p \in workers :
        LlmEntered(p) =>
            LET h == req[p].history
            IN  /\ req[p].user_message \in messages
                /\ req[p].user_message.content = req[p].user_message_content
                /\ h # <<>>
                /\ h[Len(h)] = req[p].user_message

\* the waits of a turn so far are the first waits of 1s, 2s
BackoffSoFar(p) ==
    /\ Len(req[p].sleeps) <= 2
    /\ \A i \in 1..Len(req[p].sleeps) : req[p].sleeps[i] = i

\* C7: at most 3 provider calls per turn; a rate-limit error on attempt 1 or 2 is
\* followed by a wait of 1s, resp. 2s, before the next call; a third failure is followed
\* by no wait and no call: the turn has failed with status 503.
C7_ThreeAttemptsWithBackoff ==
    \A p \in workers :
        LET n == Len(req[p].calls)
        IN  /\ n <= 3
            /\ BackoffSoFar(p)
            /\ (req[p].pc = "attempt" => (n < 3 /\ Len(req[p].sleeps) = n))
            /\ (n > 0 /\ req[p].calls[n].outcome.kind = "RateLimitError") =>
                  IF n < 3
                  THEN \/ req[p].pc = "sleep" /\ Len(req[p].sleeps) = n - 1
                       \/ req[p].pc = "attempt" /\ Len(req[p].sleeps) = n
                  ELSE /\ req[p].pc = "failed"
                       /\ req[p].error.status_code = 503
                       /\ req[p].sleeps = <<1, 2>>

\* three rate-limit errors in a row
C7_Witness ==
    \E p \in workers :
        /\ req[p].pc = "failed"
        /\ Len(req[p].calls) = 3
        /\ \A i \in 1..3 : req[p].calls[i].outcome.kind = "RateLimitError"
        /\ req[p].sleeps = <<1, 2>>
        /\ req[p].error.status_code = 503

C9_FatalErrorNeverRetried ==
    \A p \in workers :
        (\E i \in 1..Len(req[p].calls) :
              req[p].calls[i].outcome.kind = "AuthenticationError") =>
            /\ Len(req[p].calls) = 1
            /\ req[p].sleeps = <<>>
            /\ req[p].pc = "failed"

\* C10: a turn that failed in call_llm_api leaves its user turn persisted, no assistant
\* turn of that request, and the token count of the conversation as the turn found it.
C10_FailedCallKeepsUserTurnOnly ==
    \A p \in workers :
        (req[p].pc = "failed" /\ LlmEntered(p)) =>
            /\ req[p].user_message \in messages
            /\ req[p].user_message.role = USER
            /\ req[p].user_message.content = req[p].user_message_content
            /\ req[p].assistant_message = NoMessage
            /\ \A m \in MessagesOf(req[p].conversation_id) :
                  /\ m.message_id # Uuid(req[p].request, "assistant")
                  /\ m.sequence_number <= req[p].user_message.sequence_number
            /\ conversations[req[p].conversation_id].token_count
                   = req[p].conversation.token_count

\* the second turn of a conversation fails after three attempts: the reply of the first
\* turn has been counted, the user turn of the second is the last turn
C10_Witness ==
    \E p \in workers :
        /\ req[p].pc = "failed"
        /\ Len(req[p].calls) = 3
        /\ req[p].user_message \in messages
        /\ conversations[req[p].conversation_id].token_count = 50
        /\ req[p].user_message.sequence_number > 2

-----------------------------------------------------------------------------
(* Properties of the persisted turns, checked under Spec unless said otherwise *)

\* the rows of the assistant reply of the request handler p runs
OwnReplies(p) == {m \in messages : m.message_id = Uuid(req[p].request, "assistant")}

\* C11: an assistant turn is stored only by a turn whose model call returned a
\* completion, and exactly one: it is tagged with the model that call_llm_api reports,
\* holds the completion's text, has the sequence number that follows the user turn of
\* the same request with no turn after it, and is the row the handler returns.
C11_AssistantTurnAfterSuccess ==
    /\ \A m \in messages :
          m.role = ASSISTANT =>
              /\ m.llm_model = LLM_MODEL
              /\ \E u \in MessagesOf(m.conversation_id) :
                    u.role = USER /\ u.sequence_number = m.sequence_number - 1
    /\ \A p \in workers :
          /\ (OwnReplies(p) # {}) <=> (req[p].pc = "done")
          /\ req[p].pc = "done" =>
                LET k == Len(req[p].calls)
                    reply == req[p].assistant_message
                IN  /\ OwnReplies(p) = {reply}
                    /\ k >= 1
                    /\ req[p].calls[k].outcome.kind = "choices"
                    /\ reply.role = ASSISTANT
                    /\ reply.content = req[p].calls[k].outcome.content
                    /\ reply.llm_model = req[p].llm_result.model
                    /\ reply.conversation_id = req[p].conversation_id
                    /\ reply.sequence_number = req[p].user_message.sequence_number + 1
                    /\ \A m \in MessagesOf(req[p].conversation_id) :
                          m.sequence_number <= reply.sequence_number

\* a reply stored after one failed attempt, in a conversation that already has a reply
C11_Witness ==
    \E p \in workers :
        /\ req[p].pc = "done"
        /\ Len(req[p].calls) = 2
        /\ req[p].assistant_message \in messages
        /\ req[p].assistant_message.sequence_number = 5
        /\ req[p].assistant_message.llm_model = LLM_MODEL

\* C12: with one turn at a time, the sequence numbers of the turns of a conversation
\* are pairwise distinct and are 1..n for its n turns, and the number read for the turn
\* about to be appended is n + 1, the current maximum plus 1.
C12_SequenceNumbersDense ==
    /\ \A c \in ConversationIds :
          LET rows == MessagesOf(c)
          IN  /\ rows # {}
              /\ {m.sequence_number : m \in rows} = 1..Cardinality(rows)
    /\ \A p \in workers :
          req[p].pc \in {"add_user", "save_reply"} =>
              req[p].next_seq = Cardinality(MessagesOf(req[p].conversation_id)) + 1

\* a conversation of four turns, the last the user turn of a turn that failed
C12_Witness ==
    \E p \in workers :
        /\ req[p].pc = "failed"
        /\ req[p].user_message \in messages
        /\ req[p].user_message.sequence_number = 4
        /\ Cardinality(MessagesOf(req[p].conversation_id)) = 4

\* the usage the provider reported with the completion of this text (0 when it
\* reported none)
ReportedUsage(content) ==
    LET outcome == CHOOSE o \in ProviderOutcomes : o.kind = "choices" /\ o.content = content
    IN  IF outcome.usage # NoUsage THEN outcome.usage ELSE 0

RECURSIVE SumReportedUsage(_)
SumReportedUsage(rows) ==
    IF rows = {} THEN 0
    ELSE LET m == CHOOSE r \in rows : TRUE
         IN  ReportedUsage(m.content) + SumReportedUsage(rows \ {m})

\* C13: with one turn at a time, the token count of every conversation is the sum of the
\* usage reported for its stored assistant replies, 0 when it has none.
C13_TokenCountIsSumOfUsage ==
    \A c \in ConversationIds :
        conversations[c].token_count =
            SumReportedUsage({m \in MessagesOf(c) : m.role = ASSISTANT})

\* a conversation with two replies of 50 tokens each
C13_Witness ==
    \E c \in ConversationIds :
        /\ Cardinality({m \in MessagesOf(c) : m.role = ASSISTANT /\ m.content = 80}) = 2
        /\ conversations[c].token_count = 100

\* C14, as claimed (checked under SpecConcurrent): no two turns of one conversation
\* have the same sequence number, however two concurrent turns interleave their reads
\* of the maximum and their inserts.
C14_NoEqualSequenceNumbers ==
    \A m1 \in messages, m2 \in messages :
        (m1.conversation_id = m2.conversation_id
            /\ m1.sequence_number = m2.sequence_number) => m1 = m2

\* C15, as claimed (checked under SpecConcurrent): when two concurrent turns on one
\* conversation are both done, the token count of the conversation, 0 before them, is
\* the sum of the usage the two turns were reported.
C15_NoLostIncrement ==
    \A p \in workers, q \in workers :
        (/\ p # q
         /\ req[p].pc = "done"
         /\ req[q].pc = "done"
         /\ req[p].conversation_id = req[q].conversation_id) =>
            conversations[req[p].conversation_id].token_count =
                req[p].llm_result.token_usage + req[q].llm_result.token_usage

\* C16, as claimed: a turn is never aborted by its retrieval step: a turn that has
\* failed failed because the conversation was not found or inside the model call.
C16_RetrievalErrorNeverAborts ==
    \A p \in workers :
        req[p].pc = "failed" =>
            \/ req[p].error.status_code = 404
            \/ LlmEntered(p)

-----------------------------------------------------------------------------
(* Properties of retrieval in a turn, checked under Spec *)

\* C17: in every step, each conversation keeps its mode; a turn leaves its retrieval step
\* with no grounding context when the conversation is not RAG_CHAT, whatever rag_context
\* its caller passed, and with one (or the embedder's failure) when it is RAG_CHAT and
\* its linked documents have chunks; and the payload built and sent for an OPEN_CHAT
\* conversation starts with the system prompt alone.
C17_ModeFixedAndGatesRetrieval ==
    [][/\ \A c \in DOMAIN conversations :
             /\ c \in DOMAIN conversations'
             /\ conversations'[c].mode = conversations[c].mode
       /\ \A p \in workers :
             /\ (req[p].pc = "retrieve" /\ req'[p].pc # "retrieve") =>
                   LET mode == conversations[req[p].conversation_id].mode
                   IN  /\ mode # RAG_CHAT =>
                             /\ req'[p].pc = "history"
                             /\ req'[p].rag_context = NoText
                             /\ req'[p].top_chunks = <<>>
                       /\ (mode = RAG_CHAT /\ LinkedChunks(req[p].conversation_id) # {}) =>
                             \/ req'[p].pc = "failed"
                             \/ /\ req'[p].rag_context # NoText
                                /\ req'[p].top_chunks # <<>>
             /\ (/\ req'[p].conversation_id \in DOMAIN conversations'
                 /\ conversations'[req'[p].conversation_id].mode = OPEN_CHAT) =>
                   /\ (req'[p].messages_payload # <<>> =>
                          req'[p].messages_payload[1].content = SYSTEM_PROMPT)
                   /\ \A i \in 1..Len(req'[p].calls) :
                          req'[p].calls[i].messages[1].content = SYSTEM_PROMPT
      ]_vars

\* a turn answered in an OPEN_CHAT conversation whose linked document has chunks
C17_Witness ==
    \E p \in workers :
        /\ req[p].pc = "done"
        /\ conversations[req[p].conversation_id].mode = OPEN_CHAT
        /\ LinkedChunks(req[p].conversation_id) # {}
        /\ req[p].calls[1].messages[1].content = SYSTEM_PROMPT

\* the documents linked to the conversation of the turn handler p runs
LinkedDocuments(p) ==
    {l.document_id : l \in {row \in conversation_document_link :
                                row.conversation_id = req[p].conversation_id}}

\* the turn of p has passed its retrieval step
Retrieved(p) ==
    req[p].pc \in {"history", "attempt", "sleep", "read_reply_seq", "save_reply", "done"}
    \/ (req[p].pc = "failed" /\ LlmEntered(p))

\* C18: with uploads processed beside the turns, chunks exist only for documents that
\* are READY; every chunk a turn retrieved belongs to a READY document linked to its
\* conversation; a turn whose linked documents are not READY has retrieved nothing and
\* carries no grounding context; and the retrieval step of a turn can always be taken,
\* whatever the state of the documents.
C18_OnlyReadyDocumentsRetrieved ==
    /\ \A c \in document_chunks : IsReady(c.document_id)
    /\ \A p \in workers :
          /\ \A i \in 1..Len(req[p].top_chunks) :
                \E c \in document_chunks :
                    /\ c.chunk_id = req[p].top_chunks[i].chunk_id
                    /\ c.document_id \in LinkedDocuments(p)
                    /\ IsReady(c.document_id)
          /\ (Retrieved(p) /\ \A d \in LinkedDocuments(p) : ~IsReady(d)) =>
                /\ req[p].top_chunks = <<>>
                /\ req[p].rag_context = NoText
          /\ req[p].pc = "retrieve" => ENABLED RetrieveContext(p)

\* a turn answered in a RAG_CHAT conversation while its linked document is still being
\* chunked
C18_Witness ==
    \E p \in workers :
        /\ req[p].pc = "done"
        /\ conversations[req[p].conversation_id].mode = RAG_CHAT
        /\ upload.pc = "chunking"
        /\ LinkedDocuments(p) = {upload.document_id}
        /\ documents[upload.document_id].processing_status = CHUNKING
        /\ req[p].rag_context = NoText

-----------------------------------------------------------------------------
(* Properties of the ranking of retrieve_context_for_query, checked under SpecRetrieval *)

\* scan positions of the chunks whose stored embedding parses
Parseable == {i \in 1..Len(rank.chunks) : ParsesAsVector(rank.chunks[i].embedding)}

\* scan position of the chunk a ranked entry came from
ScanPosition(entry) ==
    CHOOSE i \in 1..Len(rank.chunks) : rank.chunks[i].chunk_id = entry.chunk_id

\* the candidate scanned at position i ranks before the one scanned at position j:
\* greater score, or equal score and scanned earlier
RanksBefore(i, j) ==
    \/ rank.scores[i] > rank.scores[j]
    \/ rank.scores[i] = rank.scores[j] /\ i < j

\* C19: the ranking selects min(5, number of scored candidates) candidates, each once,
\* with its own score and text, in descending score order and, among equal scores, in
\* scan order; every candidate left out ranks behind every selected one (lower score,
\* or equal score and scanned later).
C19_TopFiveStableDescending ==
    rank.stage = "ranked" =>
        LET top == rank.top
            selected == {ScanPosition(top[k]) : k \in 1..Len(top)}
        IN  /\ Len(top) = (IF Cardinality(Parseable) < 5 THEN Cardinality(Parseable) ELSE 5)
            /\ \A k \in 1..Len(top) :
                  /\ \E i \in Parseable : rank.chunks[i].chunk_id = top[k].chunk_id
                  /\ top[k].score = rank.scores[ScanPosition(top[k])]
                  /\ top[k].content = rank.chunks[ScanPosition(top[k])].content
            /\ \A k \in 1..(Len(top) - 1) :
                  RanksBefore(ScanPosition(top[k]), ScanPosition(top[k + 1]))
            /\ \A i \in Parseable \ selected, j \in selected : RanksBefore(j, i)

\* six candidates of equal score: the first five scanned are selected, in scan order
C19_Witness ==
    /\ rank.stage = "ranked"
    /\ Cardinality(Parseable) = 6
    /\ \A i \in 1..6 : rank.scores[i] = rank.scores[1]
    /\ [k \in 1..Len(rank.top) |-> ScanPosition(rank.top[k])] = <<1, 2, 3, 4, 5>>

\* the chunks whose embedding parses, with their scores, in scan order
RECURSIVE ParseableOnly(_, _)
ParseableOnly(chunks, scores) ==
    IF chunks = <<>> THEN [chunks |-> <<>>, scores |-> <<>>]
    ELSE LET rest == ParseableOnly(Tail(chunks), Tail(scores))
         IN  IF ParsesAsVector(Head(chunks).embedding)
             THEN [chunks |-> <<Head(chunks)>> \o rest.chunks,
                   scores |-> <<Head(scores)>> \o rest.scores]
             ELSE rest

\* C20: chunks whose stored embedding does not parse are skipped: the ranking is the
\* ranking of the parseable chunks alone, none of the selected is unparseable, and
\* when no chunk parses the result is no context (None), not an error.
C20_UnparseableSkipped ==
    rank.stage = "ranked" =>
        LET rest == ParseableOnly(rank.chunks, rank.scores)
        IN  /\ rank.top = top_chunks(score_chunks(rest.chunks, rest.scores))
            /\ \A k \in 1..Len(rank.top) : ScanPosition(rank.top[k]) \in Parseable
            /\ Len(rank.top) = (IF Len(rest.chunks) < 5 THEN Len(rest.chunks) ELSE 5)
            /\ (Parseable = {} => (rank.top = <<>> /\ rank.context = NoText))
            /\ ((\E i \in Parseable : Stripped(rank.chunks[i].content)) =>
                   rank.context # NoText)

\* the best-scored chunk is unparseable; the two others are ranked
C20_Witness ==
    /\ rank.stage = "ranked"
    /\ Len(rank.chunks) = 3
    /\ ~ParsesAsVector(rank.chunks[1].embedding)
    /\ rank.scores = <<2, 1, 2>>
    /\ [k \in 1..Len(rank.top) |-> ScanPosition(rank.top[k])] = <<3, 2>>



-----------------------------------------------------------------------------
(* Retrieval without material, checked under Spec *)

\* the conversation of p has no linked document, or its linked documents have no chunk
NothingToRetrieve(p) ==
    /\ req[p].conversation.mode = RAG_CHAT
    /\ LinkedChunks(req[p].conversation_id) = {}

\* p is past retrieval in a grounded conversation, and retrieval selected nothing
RetrievedNothing(p) ==
    /\ req[p].conversation # NoConversation
    /\ req[p].conversation.mode = RAG_CHAT
    /\ req[p].top_chunks = <<>>
    /\ req[p].pc = "history" \/ LlmEntered(p)
    /\ req[p].user_message # NoMessage

\* C21: in a RAG_CHAT conversation with no linked document, or whose linked documents
\* have no chunk, retrieval ends with no context and no error and the turn goes on to
\* the model call; such a turn sends the system prompt without a context section, and
\* the reply of a successful call is stored.
C21_NothingToRetrieveIsNoContext ==
    /\ [][\A p \in workers :
            (req[p].pc = "retrieve" /\ NothingToRetrieve(p) /\ req'[p] # req[p]) =>
                /\ req'[p].pc = "history"
                /\ req'[p].rag_context = NoText
                /\ req'[p].error = NoError]_vars
    /\ [](\A p \in workers :
            RetrievedNothing(p) =>
                /\ req[p].rag_context = NoText
                /\ \A i \in 1..Len(req[p].calls) :
                      req[p].calls[i].messages[1].content = SYSTEM_PROMPT
                /\ (req[p].pc = "done" =>
                       /\ req[p].assistant_message \in messages
                       /\ req[p].assistant_message.role = ASSISTANT
                       /\ req[p].calls[Len(req[p].calls)].outcome.kind = "choices"))

\* a reply stored in a grounded conversation whose only linked document has no chunk,
\* after a reply stored in a grounded conversation without links
C21_Witness ==
    \E p \in workers :
        /\ req[p].pc = "done"
        /\ RetrievedNothing(p)
        /\ req[p].assistant_message \in messages
        /\ \E l \in conversation_document_link : l.conversation_id = req[p].conversation_id
        /\ \E c \in ConversationIds :
              /\ c # req[p].conversation_id
              /\ conversations[c].mode = RAG_CHAT
              /\ \A l \in conversation_document_link : l.conversation_id # c
              /\ \E m \in MessagesOf(c) : m.role = ASSISTANT


-----------------------------------------------------------------------------
(* The merged context, checked under SpecRetrieval *)

\* the selected chunks are in descending order of score, and the merged text holds
\* their texts in that order
MergedInScoreOrder ==
    /\ \A k \in 1..(Len(rank.top) - 1) : rank.top[k].score >= rank.top[k + 1].score
    /\ rank.joined.parts = [k \in 1..Len(rank.top) |-> rank.top[k].content]

\* the characters of the selected chunks
RECURSIVE SelectedLen(_)
SelectedLen(k) ==
    IF k = 0 THEN 0 ELSE rank.top[k].content.len + SelectedLen(k - 1)

\* all selected chunks hold whitespace alone (or none is selected)
SelectedBlank ==
    \A k \in 1..Len(rank.top) : rank.top[k].content.ink = 0

\* the length of the selected chunks' texts joined by a separator of sep characters
JoinedBy(sep) ==
    IF rank.top = <<>> THEN 0
    ELSE SelectedLen(Len(rank.top)) + sep * (Len(rank.top) - 1)

\* C22 as stated: the context is the selected chunks' texts in descending order of
\* score with a single newline between consecutive ones, and a whitespace-only result
\* is no context.
C22_JoinedBySingleNewline ==
    rank.stage = "ranked" =>
        /\ MergedInScoreOrder
        /\ rank.joined.len = JoinedBy(1)
        /\ rank.context = IF SelectedBlank THEN NoText ELSE JoinedBy(1)

\* C22, amended: the context is the selected chunks' texts in descending order of
\* score with two newline characters (a blank line) between consecutive ones, and a
\* whitespace-only result is no context.
C22_JoinedByBlankLine ==
    rank.stage = "ranked" =>
        /\ MergedInScoreOrder
        /\ rank.joined.len = JoinedBy(2)
        /\ rank.context = IF SelectedBlank THEN NoText ELSE JoinedBy(2)

\* three chunks selected, of distinct scores, the first stored one blank
C22_Witness ==
    /\ rank.stage = "ranked"
    /\ Len(rank.top) = 3
    /\ rank.top[1].score > rank.top[3].score
    /\ \E k \in 1..3 : rank.top[k].content.ink = 0
    /\ rank.context = rank.top[1].content.len + rank.top[2].content.len
                        + rank.top[3].content.len + 4

\* chunks are selected and all of them are blank: no context
C22_BlankWitness ==
    /\ rank.stage = "ranked"
    /\ Len(rank.top) >= 2
    /\ SelectedBlank
    /\ rank.context = NoText


-----------------------------------------------------------------------------
(* count_tokens, checked under SpecTokens *)

\* C23: count_tokens returns the number of characters of the text divided by four and
\* rounded down, for every text; it returns 0 for the empty text and for None, and
\* never a negative number.
C23_TokensAreQuarterLength ==
    counted.stage = "returned" =>
        /\ counted.tokens >= 0
        /\ (counted.text \in {NoText, 0} => counted.tokens = 0)
        /\ (counted.text >= 0 =>
               /\ 4 * counted.tokens <= counted.text
               /\ counted.text < 4 * counted.tokens + 4)

\* a text whose length is not a multiple of four
C23_Witness ==
    /\ counted.stage = "returned"
    /\ counted.text = 127
    /\ counted.tokens = 31


-----------------------------------------------------------------------------
(* _chunk_text, checked under SpecChunking *)

DefaultConfiguration ==
    chunker.chunk_size = 512 /\ chunker.chunk_overlap = 50

\* the number of windows the claim gives for a text of text_len > 0 characters:
\* 1 up to 512 characters, else (text_len - 50) / 462 rounded up
WindowCount(text_len) ==
    IF text_len <= 512 THEN 1 ELSE (text_len - 50 + 461) \div 462

\* C24: with chunk_size 512 and overlap 50, _chunk_text returns for a text of L > 0
\* characters exactly the windows text[k*462 : k*462+512] for k = 0..n-1, in order,
\* where n = 1 if L <= 512 and the ceiling of (L-50)/462 otherwise; the last window
\* reaches the end of the text; the empty text gives the empty sequence; and the loop
\* makes exactly n iterations.
C24_WindowsOfDefaultConfiguration ==
    LET L == TextLen(chunker.text)
    IN  DefaultConfiguration =>
            /\ (chunker.stage = "loop" => chunker.iterations < WindowCount(L))
            /\ (chunker.stage = "returned" =>
                   IF L = 0 THEN chunker.chunks = <<>>
                   ELSE /\ Len(chunker.chunks) = WindowCount(L)
                        /\ chunker.iterations = WindowCount(L)
                        /\ \A k \in 0..(WindowCount(L) - 1) :
                              LET chunk == chunker.chunks[k + 1]
                                  stop == IF k * 462 + 512 < L THEN k * 462 + 512 ELSE L
                              IN  /\ chunk.offset = k * 462
                                  /\ chunk.offset < L
                                  /\ chunk.content.len = stop - chunk.offset
                                  /\ chunk.content.ink =
                                         InkBetween(chunker.text, chunk.offset, stop)
                                  /\ (k = WindowCount(L) - 1) <=> (stop = L))

\* a text of 1437 characters: four windows, the last of 51 characters
C24_Witness ==
    /\ DefaultConfiguration
    /\ chunker.stage = "returned"
    /\ TextLen(chunker.text) = 1437
    /\ Len(chunker.chunks) = 4
    /\ chunker.chunks[4] = [offset |-> 1386, content |-> [len |-> 51, ink |-> 0]]

\* C25: a configuration whose overlap is not smaller than its chunk size is rejected
\* before any chunk is cut, and the loop of _chunk_text ends for every text and
\* configuration: it is never still running after MaxIterations iterations.
C25_DegenerateConfigurationRejected ==
    /\ (chunker.chunk_overlap >= chunker.chunk_size /\ chunker.stage # "none") =>
           chunker.stage \in {"called", "rejected"}
    /\ ~(chunker.stage = "loop" /\ chunker.iterations = MaxIterations)


-----------------------------------------------------------------------------
(* The upload of a document, checked under Spec *)

\* the windows of a text, by C24
WindowsOf(text) ==
    IF TextLen(text) = 0 THEN <<>>
    ELSE [k \in 1..WindowCount(TextLen(text)) |->
             Slice(text, (k - 1) * 462, (k - 1) * 462 + 512)]

\* the windows that hold more than whitespace, in the order of the text
SurvivingChunks(text) ==
    SelectSeq(WindowsOf(text), LAMBDA content : content.ink > 0)

ChunksOf(document_id) == {c \in document_chunks : c.document_id = document_id}

\* C26: chunks that are empty or hold whitespace alone are discarded before any chunk
\* row is created: no stored chunk is blank, and a processed document's rows are its
\* surviving chunks, numbered 0..m-1 in their order.
C26_BlankChunksDiscarded ==
    /\ \A c \in document_chunks : c.content.len > 0 /\ c.content.ink > 0
    /\ upload.pc = "done" =>
          LET surviving == SurvivingChunks(upload.text)
              rows == ChunksOf(upload.document_id)
          IN  /\ Cardinality(rows) = Len(surviving)
              /\ \A j \in 1..Len(surviving) :
                    \E c \in rows : c.chunk_index = j - 1 /\ c.content = surviving[j]

\* a text of three windows, the second of whitespace alone: two rows, numbered 0 and 1
C26_Witness ==
    /\ upload.pc = "done"
    /\ Len(WindowsOf(upload.text)) = 3
    /\ WindowsOf(upload.text)[2].ink = 0
    /\ {<<c.chunk_index, c.content.len>> : c \in ChunksOf(upload.document_id)}
           = {<<0, 512>>, <<1, 476>>}


\* the status changes the lifecycle allows
LifecycleSteps ==
    {<<PENDING, CHUNKING>>, <<CHUNKING, READY>>, <<PENDING, FAILED>>, <<CHUNKING, FAILED>>}

\* C27: a document is created with status pending, and its status only moves pending
\* to chunking to ready, or into failed, which it never leaves; so no document is ready
\* before its chunking has completed.
C27_StatusLifecycle ==
    [][\A d \in DOMAIN documents' :
          IF d \notin DOMAIN documents
          THEN documents'[d].processing_status = PENDING
          ELSE \/ documents'[d].processing_status = documents[d].processing_status
               \/ <<documents[d].processing_status, documents'[d].processing_status>>
                      \in LifecycleSteps]_vars

\* C28: when the extraction of the text fails, the upload is answered with an error,
\* and the document is marked failed, has no chunk and is linked to no conversation.
C28_FailedExtractionLeavesNothing ==
    (upload.pc = "failed" /\ upload.error.detail = ExtractionFailed) =>
        /\ upload.error.status_code = 500
        /\ documents[upload.document_id].processing_status = FAILED
        /\ ChunksOf(upload.document_id) = {}
        /\ \A l \in conversation_document_link : l.document_id # upload.document_id
        /\ \A i \in 1..Len(pending_documents_store) :
              pending_documents_store[i].document_id # upload.document_id


-----------------------------------------------------------------------------
(* Deleting a conversation, checked under SpecLibrary *)

\* the step that completes the deletion of a conversation
ConversationDeleted ==
    admin.pc = "documents_deleted" /\ admin'.pc = "idle"

\* C29: deleting a conversation deletes the conversation and all of its turns, and no
\* turn and no row of any other conversation; turns are deleted by nothing else, and
\* none is left without its conversation.
C29_DeleteRemovesOwnTurnsOnly ==
    /\ [][/\ ConversationDeleted =>
               LET c == admin.conversation_id
               IN  /\ c \in DOMAIN conversations
                   /\ DOMAIN conversations' = DOMAIN conversations \ {c}
                   /\ \A o \in DOMAIN conversations' : conversations'[o] = conversations[o]
                   /\ \A m \in messages : (m \in messages') <=> (m.conversation_id # c)
                   /\ messages' \subseteq messages
           /\ ~ConversationDeleted => messages' = messages]_vars
    /\ [](admin.pc = "idle" => \A m \in messages : m.conversation_id \in ConversationIds)

\* the first conversation is deleted, the two turns of the second are kept
C29_Witness ==
    /\ admin.pc = "idle"
    /\ ConversationIds = {Uuid(2, "conversation")}
    /\ {m.sequence_number : m \in MessagesOf(Uuid(2, "conversation"))} = {1, 2}
    /\ Cardinality(messages) = 2

\* the step of a delete request that removes links, documents and chunks
DocumentsDeleted ==
    admin.pc = "idle" /\ admin'.pc = "documents_deleted"

LinkedTo(conversation_id, document_id) ==
    \E l \in conversation_document_link :
        l.conversation_id = conversation_id /\ l.document_id = document_id

LinkedElsewhere(conversation_id, document_id) ==
    \E l \in conversation_document_link :
        l.conversation_id # conversation_id /\ l.document_id = document_id

\* C30: deleting a conversation deletes a document linked to it, with all its chunks,
\* exactly when no other conversation links the document; every other document keeps
\* its row and all its chunks; the links of the deleted conversation are removed and no
\* other link is; and after any sequence of link and delete requests no link names a
\* missing conversation or document and no chunk a missing document.
C30_DeleteRemovesUnsharedDocuments ==
    /\ [][DocumentsDeleted =>
             LET c == admin'.conversation_id
             IN  /\ \A d \in DOMAIN documents :
                       /\ (d \notin DOMAIN documents') <=>
                              (LinkedTo(c, d) /\ ~LinkedElsewhere(c, d))
                       /\ d \in DOMAIN documents' =>
                              /\ documents'[d] = documents[d]
                              /\ {k \in document_chunks' : k.document_id = d} = ChunksOf(d)
                       /\ d \notin DOMAIN documents' =>
                              {k \in document_chunks' : k.document_id = d} = {}
                 /\ DOMAIN documents' \subseteq DOMAIN documents
                 /\ conversation_document_link' =
                        {l \in conversation_document_link : l.conversation_id # c}]_vars
    /\ [](/\ \A l \in conversation_document_link :
                /\ l.conversation_id \in ConversationIds
                /\ l.document_id \in DOMAIN documents
           /\ \A k \in document_chunks : k.document_id \in DOMAIN documents)

\* the first conversation is deleted: the document the second conversation links too
\* is kept with its two chunks, the document only the first linked is gone
C30_Witness ==
    /\ admin.pc = "idle"
    /\ ConversationIds = {Uuid(2, "conversation")}
    /\ DOMAIN documents = {Uuid(1, "document")}
    /\ conversation_document_link =
           {ConvDocumentLink(Uuid(2, "conversation"), Uuid(1, "document"))}
    /\ Cardinality(ChunksOf(Uuid(1, "document"))) = 2
    /\ \A k \in document_chunks : k.document_id = Uuid(1, "document")


-----------------------------------------------------------------------------
(* Rejected requests, checked under SpecRequests *)

NotFound == HTTPException(404, "Conversation not found or unauthorized access.")

\* a step in which a fetch, link or delete request is answered 404
AdminRejected ==
    /\ admin.pc = "idle"
    /\ admin'.pc = "idle"
    /\ admin'.error = NotFound
    /\ \/ admin' # admin
       \/ UNCHANGED <<req, upload, pending_documents_store, conversations>>

\* a step in which handler p answers a request to post a message 404
TurnRejected(p) ==
    /\ req[p].pc \in {"idle", "done", "failed"}
    /\ req'[p].request = req[p].request + 1
    /\ req'[p].pc = "failed"
    /\ req'[p].error.status_code = 404

\* C31: a request to post a message, fetch, delete or link documents that names a
\* conversation that does not exist is answered 404 and changes nothing stored: no
\* turn, conversation or token count, no link, no document or chunk, no pending entry.
\* And every such request is answered so: the conversation a handler works on exists.
C31_RejectedRequestsMutateNothing ==
    /\ [][(AdminRejected \/ \E p \in workers : TurnRejected(p)) =>
             UNCHANGED <<conversations, messages, documents, document_chunks,
                         conversation_document_link, pending_documents_store>>]_vars
    /\ [][admin' # admin /\ admin'.conversation_id \notin ConversationIds
             /\ admin'.conversation_id # NoSuchConversation =>
                 admin'.pc = "idle" /\ admin'.error = NotFound]_vars
    /\ [](\A p \in workers :
             req[p].pc \notin {"idle", "done", "failed"} =>
                 req[p].conversation_id \in ConversationIds)

\* a delete request for a conversation that was deleted before is answered 404, while
\* a document, its chunks and a pending entry are stored
C31_Witness ==
    /\ admin.pc = "idle"
    /\ admin.deletes = 2
    /\ admin.error = NotFound
    /\ admin.conversation_id \notin ConversationIds
    /\ documents # <<>>
    /\ document_chunks # {}
    /\ pending_documents_store # <<>>


-----------------------------------------------------------------------------
(* start_new_conversation, checked under Spec *)

\* C32: when start_new_conversation has completed, the new conversation holds exactly
\* two turns, the user's first message with sequence number 1 and the assistant's
\* reply with sequence number 2, and the history sent to the model held the first
\* message once.
C32_StartLeavesTwoTurns ==
    \A p \in workers :
        (req[p].handler = "start" /\ req[p].pc = "done") =>
            LET rows == MessagesOf(req[p].conversation_id)
            IN  /\ Cardinality(rows) = 2
                /\ \E u \in rows : u.sequence_number = 1 /\ u.role = USER
                /\ \E a \in rows : a.sequence_number = 2 /\ a.role = ASSISTANT
                /\ Len(req[p].history) = 1


-----------------------------------------------------------------------------
(* The payload of a model call, checked under SpecWindow *)

\* the estimated tokens of a payload: count_tokens of the content of each message
RECURSIVE PayloadCost(_)
PayloadCost(payload) ==
    IF payload = <<>> THEN 0
    ELSE count_tokens(Head(payload).content) + PayloadCost(Tail(payload))

\* C33: the payload formatted for a model call, the system message with the grounding
\* context and its wrapper and the windowed turns, costs at most the limit.
C33_PayloadWithinLimit ==
    win.stage \in {"selected", "reselected"} =>
        PayloadCost(win.messages_payload) <= context_limit


-----------------------------------------------------------------------------
(* The status a finished upload leaves, checked under Spec *)

\* C34, as claimed: every run of process_document_upload that has finished, by
\* returning the document id or by raising, leaves its document READY or FAILED, never
\* PENDING or CHUNKING, also when the extracted text is empty or whitespace alone.
C34_FinishedUploadReadyOrFailed ==
    (upload.pc \in {"done", "failed"} /\ upload.document_id \in DOMAIN documents) =>
        documents[upload.document_id].processing_status \in {READY, FAILED}


-----------------------------------------------------------------------------
(* Documents and the mode of a conversation, checked under SpecRequests *)

\* the step of start_new_conversation that links documents to the new conversation
LinkedAtCreation(p) ==
    /\ req[p].pc = "collect"
    /\ req'[p].pc = "fetch"

\* the step of delete_conversation that deletes the documents of an OPEN_CHAT conversation
OpenConversationDeleted ==
    /\ admin.pc = "idle"
    /\ admin'.pc = "documents_deleted"
    /\ conversations[admin'.conversation_id].mode = OPEN_CHAT

\* C35, as claimed: the creation of an OPEN_CHAT conversation links no document to it,
\* documents being linked at creation only when the mode is RAG_CHAT, and the deletion
\* of an OPEN_CHAT conversation deletes no document.
C35_OpenChatCreationLinksNothing ==
    /\ [][\A p \in workers :
            (LinkedAtCreation(p)
                /\ conversations[req[p].conversation_id].mode = OPEN_CHAT) =>
                conversation_document_link' = conversation_document_link]_vars
    /\ [][OpenConversationDeleted => documents' = documents]_vars


-----------------------------------------------------------------------------
(* The pending uploads after a conversation is started, checked under SpecRequests *)

\* C36, as claimed: when start_new_conversation has collected its documents, no entry
\* older than the seven-day cutoff is left in the pending list, and every pending
\* document that was recent and READY is linked to the new conversation.
C36_StartPrunesExpiredPending ==
    [][\A p \in workers :
          LinkedAtCreation(p) =>
              /\ \A i \in 1..Len(pending_documents_store') :
                    pending_documents_store'[i].recent
              /\ \A i \in 1..Len(pending_documents_store) :
                    (pending_documents_store[i].recent
                        /\ IsReady(pending_documents_store[i].document_id)) =>
                        [conversation_id |-> req[p].conversation_id,
                         document_id |-> pending_documents_store[i].document_id]
                            \in conversation_document_link']_vars


-----------------------------------------------------------------------------
(* A completion without choices, checked under Spec *)

\* the call of the turn that the provider answered with an empty choice list
EmptyChoices(p, i) == req[p].calls[i].outcome.kind = "no_choices"

\* C37: a completion with an empty choice list is not retried: on whichever attempt it
\* comes, it is the last call of the turn, the turn has failed with the 503 of an unknown
\* error, and no backoff sleep follows it.
C37_EmptyChoicesNotRetried ==
    \A p \in workers : \A i \in 1..Len(req[p].calls) :
        EmptyChoices(p, i) =>
            /\ i = Len(req[p].calls)
            /\ req[p].pc = "failed"
            /\ req[p].error = HTTPException(503,
                   "External Groq service failed due to an unknown error.")
            /\ Len(req[p].sleeps) = i - 1

\* a turn whose third call, after two rate-limit errors and their sleeps, was answered
\* with an empty choice list
C37_Witness ==
    \E p \in workers :
        /\ Len(req[p].calls) = MAX_RETRIES
        /\ EmptyChoices(p, MAX_RETRIES)
        /\ req[p].calls[1].outcome.kind = "RateLimitError"
        /\ req[p].sleeps = <<1, 2>>
        /\ req[p].pc = "failed"

=============================================================================
